---- MODULE Spec2Model ----
(***************************************************************************)
(* Download orchestration engine of the desktop application: the shared    *)
(* job queue, the re-entrancy guarded processing loop and the per-job      *)
(* processing pipeline with its fallback chain.                            *)
(*                                                                         *)
(* The sources hold two revisions of the engine.  lib.rs is the            *)
(* monolithic revision (start_queue_processing + process_download_job).    *)
(* download/{queue,processor}.rs and download/services/*.rs are the        *)
(* modular revision (QueueManager + JobProcessor::process_job + one        *)
(* downloader per service).  `build` selects the revision; it is fixed     *)
(* for a whole behaviour.                                                  *)
(*                                                                         *)
(* Every lock section of the code is one atomic step; every `.await` of an *)
(* external call (HTTP request, subprocess event) is a step whose outcome  *)
(* is chosen by the environment.  In the engine no lock section panics;    *)
(* a poisoned queue lock is followed on its own in LockSpec.  A job's      *)
(* `message` and timestamps are not part of the state:                     *)
(* `message` is always written together with status and progress.  Of a    *)
(* job's URL the state keeps the detected service and whether it names a   *)
(* single track or a page (artist, album, playlist).  Of a job's metadata  *)
(* the state keeps which write produced it: the placeholder of the         *)
(* constructor, the resolved original, or the transliteration stored by    *)
(* the spawned task; each caller keeps which lookup the names used by the  *)
(* file organizer come from.                                               *)
(*                                                                         *)
(* Four specifications share the actions.  Spec is the queue with jobs     *)
(* added, removed and processed concurrently; FairSpec is the three-job    *)
(* scenario with fairness; ResolveSpec is the resolution of one job of any *)
(* service, URL form and context; CommandSpec is the download commands,    *)
(* each of which enqueues a job and then starts the loop, under weak       *)
(* fairness of every call.  `push` records, beside the engine, which       *)
(* status writes a "queue-update" event has followed.                      *)
(*                                                                         *)
(* SyncSpec follows the two mutexes (DOWNLOAD_QUEUE and QUEUE_PROCESSING)  *)
(* below the lock sections: each acquisition, each release and each read   *)
(* or write under a lock is a step of its own, and a thread that asks for  *)
(* a held mutex waits.                                                     *)
(*                                                                         *)
(* The pure functions are followed on their own, one call at a time, over  *)
(* bounded inputs: SearchSpec the catalog ranking search                   *)
(* (find_best_source) over the output of its three queries, DecryptSpec    *)
(* the partial-block decryptor (decrypt_file), SanitizeSpec and            *)
(* OrganizeSpec the path sanitizer and the file organizer, LockSpec the    *)
(* queue mutations against a lock that a panicking holder may poison.      *)
(***************************************************************************)
EXTENDS Integers, Sequences, FiniteSets, TLC

\* ------------------------------ bounds
MaxJobs == 2          \* jobs ever enqueued in one behaviour
NumCallers == 2       \* concurrent invocations of the start command
MaxRemovals == 1      \* remove / clear-completed requests in one behaviour
MaxLines == 2         \* stdout lines one download subprocess emits

Callers == 1..NumCallers
JobIds == 1..MaxJobs
NoJob == 0
NoneV == "None"
NoPath == <<>>        \* output_path: None
NoInfo == [url |-> NoneV, download_context |-> NoneV]
NoMetadata == [artist |-> <<>>, title |-> <<>>, album |-> <<>>]
NoContext == [kind |-> NoneV, name |-> <<>>]
NoReport == [op |-> NoneV, result |-> NoneV, removed |-> 0]
NoHolder == 0         \* a mutex no thread holds the guard of
\* QueueStatus of an empty queue
NoStatus == [jobs |-> <<>>, active_count |-> 0, queued_count |-> 0,
             completed_count |-> 0, error_count |-> 0, is_processing |-> FALSE]
\* a thread that runs no command
ThreadIdle ==
    [at |-> "idle", ret |-> "idle", job |-> NoJob, claimed |-> FALSE,
     status |-> NoStatus]

Builds == {"monolith", "modular"}

\* services a URL can be detected as (download/models.rs MusicService)
MusicService == {"YouTube", "Spotify", "SoundCloud", "Deezer", "Tidal",
                 "AppleMusic", "Bandcamp", "Unknown"}
\* the services the environment submits URLs of
EnqueuedServices == {"Spotify", "AppleMusic", "YouTube", "SoundCloud", "Deezer"}

DownloadStatus == {"Queued", "Downloading", "Converting", "Complete", "Error"}

\* what a submitted URL points at: a single track, or an artist / album /
\* playlist page (without `?i=` or `/song/` for Apple Music)
UrlForms == {"track", "page"}

\* download/models.rs DownloadContext (the album / playlist name is dropped)
DownloadContext == {"Single", "Album", "Playlist"}

\* where the resolver's metadata came from: the Spotify metadata proxy, the
\* iTunes lookup, a parsed answer of the metadata-only invocation, or
\* TrackMetadata::default() for an answer that does not parse
MetaSources == {"proxy", "catalog", "ytdlp", "unknown"}

\* percentages a `[download] NN%` line can carry
Pcts == {50}

\* error messages (the variable part of each message is dropped)
E_NotFound == "Job not found"
E_SpotifyMeta == "Failed to get Spotify metadata"
E_Search == "YouTube search failed"
E_Lookup == "iTunes lookup failed"
E_Sidecar == "Failed to get yt-dlp sidecar"
E_Spawn == "Failed to spawn yt-dlp"
E_Mkdir == "Failed to create directory"
E_Proc == "yt-dlp error"
E_Exit == "yt-dlp exited with code"
E_Unsupported == "Unsupported service"
E_ArtistPage == "Artist pages cannot be downloaded"
\* failures of the direct (Deezer) path: key/URL issuance, download, decrypt, write
E_Direct == "Deezer download failed"

VARIABLES
    build,        \* revision of the engine
    queue,        \* DOWNLOAD_QUEUE: sequence of jobs, in insertion order
    processing,   \* QUEUE_PROCESSING
    nextId,       \* next fresh job identifier (Uuid::new_v4)
    removals,     \* remove / clear requests issued so far
    pc,           \* per caller: position in start_queue_processing / process job
    cur,          \* per caller: id of the job the loop took (job_id)
    svc,          \* per caller: service read by get_job_info
    info,         \* per caller: URL form and download context read by get_job_info
    lp,           \* per caller: last_progress of the download loop
    err,          \* per caller: error message on its way to the job / the caller
    qidx,         \* per caller: index of the ranking-search query being issued
    lines,        \* per caller: stdout lines consumed from the download subprocess
    meta,         \* per caller: source of the local `metadata` / `track_metadata`
    res,          \* per caller: what the last process-job call returned to the loop
    translit,     \* jobs with a spawned transliteration task still running
    results,      \* ranking search: the candidates each query's subprocess prints
    idx,          \* ranking search: index of the query of the current iteration
    best_result,  \* ranking search: best candidate kept so far
    issued,       \* ranking search: the queries issued so far, in order
    returned,     \* ranking search: what the call returned
    spc,          \* ranking search: position in find_best_source
    encrypted_data,      \* decryptor: the input buffer
    decryption_key_hex,  \* decryptor: the key argument, a string of characters
    key_bytes,           \* decryptor: the key as parsed
    plain_data,          \* decryptor: the buffer the provider encrypted
    decrypted_data,      \* decryptor: the output buffer being built
    chunk_idx,           \* decryptor: index of the loop over the chunks
    ciphers,             \* decryptor: cipher instances initialised by the call
    dec_result,          \* decryptor: what decrypt_file returned
    dpc,                 \* decryptor: position in decrypt_file
    name_arg,     \* sanitizer: the argument of the current call
    sanitized,    \* sanitizer: what each call so far returned, in order
    metadata_arg, \* organizer: artist, title and album of the track
    context_arg,  \* organizer: the download context given at enqueue time
    out_path,     \* organizer: the path returned
    poisoned,     \* queue lock: a holder has panicked
    report,       \* queue lock: the last mutation attempted and what it reported
    push,         \* jobs with a status write not pushed yet, or never pushed
    holder,       \* mutexes: the thread that holds the guard of each
    thread        \* mutexes: per thread, its position, its job and its locals

\* the locals of one find_best_source call, followed on their own
rankVars == <<results, idx, best_result, issued, returned, spc>>

\* the locals of one decrypt_file call
decVars == <<encrypted_data, decryption_key_hex, key_bytes, plain_data,
             decrypted_data, chunk_idx, ciphers, dec_result, dpc>>

\* the calls of sanitize_filename and of get_organized_output_path
sanVars == <<name_arg, sanitized>>
orgVars == <<metadata_arg, context_arg, out_path>>

\* the poison flag of the queue's mutex and the last report
syncVars == <<holder, thread>>
lockVars == <<poisoned, report, syncVars>>

\* the functions followed on their own
fnVars == <<decVars, sanVars, orgVars, lockVars>>
restVars == <<rankVars, fnVars>>

\* what an action that writes no status leaves alone besides the engine's
\* own variables
sideVars == <<restVars, push>>

vars == <<build, queue, processing, nextId, removals, pc, cur, svc, info, lp,
          err, qidx, lines, meta, res, translit, rankVars, fnVars, push>>

\* the state of the queue, of the loop and of the jobs in progress
engineVars == <<build, queue, processing, nextId, removals, pc, cur, svc, info,
                lp, err, qidx, lines, meta, res, translit, push>>

procVars == <<pc, cur, svc, info, lp, err, qidx, lines, meta>>

\* ------------------------------ queue helpers

\* DownloadJob::new: a Queued job with progress 0 and nothing resolved yet
NewJob(id, service) ==
    [id |-> id, service |-> service, status |-> "Queued", progress |-> 0,
     error |-> NoneV, output_path |-> NoPath, metadata |-> "default",
     url |-> "track", download_context |-> "Single"]

\* a job as the album / playlist commands and page URLs make it
NewJobFor(id, service, url, context) ==
    [NewJob(id, service) EXCEPT !.url = url, !.download_context = context]

Ids(q) == {q[i].id : i \in DOMAIN q}

HasJob(q, id) == id \in Ids(q)

JobOf(q, id) == q[CHOOSE i \in DOMAIN q : q[i].id = id]

\* what get_job_info hands out besides the service
JobInfo(job) == [url |-> job.url, download_context |-> job.download_context]

\* variant: a status written for an id that is absent adds a job of that id
update_or_insert_job_status(q, id, status, progress) ==
    IF \E i \in DOMAIN q : q[i].id = id
    THEN [i \in DOMAIN q |->
             IF q[i].id = id
             THEN [q[i] EXCEPT !.status = status, !.progress = progress]
             ELSE q[i]]
    ELSE Append(q, [id |-> id, service |-> "Unknown", status |-> status,
                    progress |-> progress, error |-> NoneV,
                    output_path |-> NoPath, metadata |-> "default",
                    url |-> "track", download_context |-> "Single"])

\* update_job_status: writes status and progress of the job with that id,
\* a no-op when the id is absent
update_job_status(q, id, status, progress) ==
    [i \in DOMAIN q |->
        IF q[i].id = id
        THEN [q[i] EXCEPT !.status = status, !.progress = progress]
        ELSE q[i]]

\* the `job.error = Some(msg)` lock sections
set_job_error(q, id, msg) ==
    [i \in DOMAIN q |-> IF q[i].id = id THEN [q[i] EXCEPT !.error = msg] ELSE q[i]]

\* the `job.output_path = Some(..); job.completed_at = Some(..)` lock sections
set_job_output(q, id, path) ==
    [i \in DOMAIN q |->
        IF q[i].id = id THEN [q[i] EXCEPT !.output_path = path] ELSE q[i]]

\* update_job_metadata / the `job.metadata = ..` lock sections
update_job_metadata(q, id, m) ==
    [i \in DOMAIN q |-> IF q[i].id = id THEN [q[i] EXCEPT !.metadata = m] ELSE q[i]]

\* ---- status writes and pushes
\* `push` follows the writes of the jobs' statuses and the "queue-update"
\* events, which carry the whole queue: `pending` holds the jobs whose last
\* status write no event has followed yet, `missed` the jobs whose status
\* was written again while the write before was still pending.

NothingPending == [pending |-> {}, missed |-> {}]

\* update_job_status on job id: a status write, unless the id is absent
AfterWrite(p, q, id) ==
    IF ~HasJob(q, id)
    THEN p
    ELSE IF id \in p.pending
         THEN [p EXCEPT !.missed = p.missed \cup {id}]
         ELSE [p EXCEPT !.pending = p.pending \cup {id}]

\* app.emit("queue-update", ..) / emit_update / emit_queue_fn
AfterEmit(p) == [p EXCEPT !.pending = {}]

\* a step's writes on job id ("W") and events ("E"), in the code's order
RECURSIVE AfterEvents(_, _, _, _)
AfterEvents(p, q, id, events) ==
    IF events = <<>>
    THEN p
    ELSE AfterEvents(IF Head(events) = "W"
                     THEN AfterWrite(p, q, id)
                     ELSE AfterEmit(p),
                     q, id, Tail(events))

\* the processing of job id begins: what an earlier processing of it left
\* is dropped
Fresh(p, id) ==
    [pending |-> p.pending \ {id}, missed |-> p.missed \ {id}]

\* variant: the loop head takes the most recently added Queued job
LastQueued(q) ==
    IF \E i \in DOMAIN q : q[i].status = "Queued"
    THEN q[CHOOSE i \in DOMAIN q :
              /\ q[i].status = "Queued"
              /\ \A k \in (i + 1)..Len(q) : q[k].status # "Queued"].id
    ELSE NoJob

\* iter().find(|j| j.status == Queued).map(|j| j.id): first Queued job, or NoJob
FirstQueued(q) ==
    IF \E i \in DOMAIN q : q[i].status = "Queued"
    THEN q[CHOOSE i \in DOMAIN q :
              /\ q[i].status = "Queued"
              /\ \A k \in 1..(i - 1) : q[k].status # "Queued"].id
    ELSE NoJob

\* QueueStatus.active_count
ActiveCount(q) ==
    Cardinality({i \in DOMAIN q : q[i].status \in {"Downloading", "Converting"}})

\* ------------------------------ ranking search: data
\* download/services/youtube.rs (lib.rs holds the same functions)

MaxResults == 2       \* JSON lines one search query prints
LastQuery == 2        \* index of the last of the three search queries

\* search_queries, by index
QueryNames == <<"topic", "official audio", "plain">>
Queries == 0..LastQuery

\* YouTubeSourceTier, with its derived order
TierRank(tier) ==
    CASE tier = "Regular" -> 0
      [] tier = "OfficialAudio" -> 1
      [] tier = "VEVO" -> 2
      [] tier = "Topic" -> 3

\* the JSON lines a query can print: the uploader ends with " - Topic",
\* contains "VEVO" or neither; title or description mark an official audio or
\* not; a line may lack both `webpage_url` and `url`
JsonLines ==
    {[url |-> "t", uploader |-> "Topic", official |-> FALSE],
     [url |-> "v", uploader |-> "VEVO", official |-> FALSE],
     [url |-> "o", uploader |-> "other", official |-> TRUE],
     [url |-> "r1", uploader |-> "other", official |-> FALSE],
     [url |-> "r2", uploader |-> "other", official |-> FALSE],
     [url |-> NoneV, uploader |-> "Topic", official |-> FALSE]}

\* Option<YouTubeSearchResult>: None
NoResult == [url |-> NoneV, tier |-> NoneV]
\* the call has not returned
NoReturn == [ok |-> FALSE, value |-> NoneV]

\* analyze_youtube_result: None without a URL, else the URL with its tier
analyze_youtube_result(json) ==
    IF json.url = NoneV
    THEN NoResult
    ELSE [url |-> json.url,
          tier |-> CASE json.uploader = "Topic" -> "Topic"
                     [] json.uploader = "VEVO" -> "VEVO"
                     [] json.official -> "OfficialAudio"
                     [] OTHER -> "Regular"]

\* no find_best_source call is followed
SearchIdle ==
    /\ results = [q \in Queries |-> <<>>]
    /\ idx = 0
    /\ best_result = NoResult
    /\ issued = <<>>
    /\ returned = NoReturn
    /\ spc = "idle"

\* no call of the decryptor, the sanitizer or the organizer is followed, and
\* the queue's mutex is not poisoned
DecryptIdle ==
    /\ encrypted_data = <<>>
    /\ decryption_key_hex = <<>>
    /\ key_bytes = <<>>
    /\ plain_data = <<>>
    /\ decrypted_data = <<>>
    /\ chunk_idx = 0
    /\ ciphers = 0
    /\ dec_result = NoReturn
    /\ dpc = "idle"

SanitizeIdle ==
    /\ name_arg = <<>>
    /\ sanitized = <<>>

OrganizeIdle ==
    /\ metadata_arg = NoMetadata
    /\ context_arg = NoContext
    /\ out_path = NoPath

LockIdle ==
    /\ poisoned = FALSE
    /\ report = NoReport
    /\ holder = [DOWNLOAD_QUEUE |-> NoHolder, QUEUE_PROCESSING |-> NoHolder]
    /\ thread = [t \in Callers |-> ThreadIdle]

FnIdle == DecryptIdle /\ SanitizeIdle /\ OrganizeIdle /\ LockIdle

\* ------------------------------ initial state

\* nothing is queued and no caller is in the loop
EngineIdle ==
    /\ build \in Builds
    /\ queue = <<>>
    /\ processing = FALSE
    /\ nextId = 1
    /\ removals = 0
    /\ pc = [c \in Callers |-> "idle"]
    /\ cur = [c \in Callers |-> NoJob]
    /\ svc = [c \in Callers |-> NoneV]
    /\ info = [c \in Callers |-> NoInfo]
    /\ lp = [c \in Callers |-> 0]
    /\ err = [c \in Callers |-> NoneV]
    /\ qidx = [c \in Callers |-> 0]
    /\ lines = [c \in Callers |-> 0]
    /\ meta = [c \in Callers |-> NoneV]
    /\ res = [c \in Callers |-> NoneV]
    /\ translit = {}
    /\ push = NothingPending

Init == EngineIdle /\ SearchIdle /\ FnIdle

\* ------------------------------ queue commands

\* add_to_queue(url): push a new Queued job at the end
add_to_queue(service) ==
    /\ nextId <= MaxJobs
    /\ queue' = Append(queue, NewJob(nextId, service))
    /\ nextId' = nextId + 1
    /\ UNCHANGED <<build, sideVars, translit, processing, removals, procVars, res>>

\* remove_from_queue(job_id): retain every job with another id
remove_from_queue(id) ==
    /\ removals < MaxRemovals
    /\ HasJob(queue, id)
    /\ LET Keep(j) == j.id # id IN queue' = SelectSeq(queue, Keep)
    /\ removals' = removals + 1
    /\ UNCHANGED <<build, sideVars, translit, processing, nextId, procVars, res>>

\* variant: only the Queued jobs are retained
clear_all_but_queued(q) ==
    LET Keep(j) == j.status = "Queued"
    IN  [queue |-> SelectSeq(q, Keep),
         removed |-> Len(q) - Len(SelectSeq(q, Keep))]

\* QueueManager::clear_completed: retain every job that is neither Complete
\* nor Error; `removed` is the difference of the lengths
clear_completed(q) ==
    LET Keep(j) == j.status # "Complete" /\ j.status # "Error"
    IN  [queue |-> SelectSeq(q, Keep),
         removed |-> Len(q) - Len(SelectSeq(q, Keep))]

\* clear_completed_jobs: the queue is cleared and Ok(removed) returned
clear_completed_jobs ==
    /\ removals < MaxRemovals
    /\ queue' = clear_completed(queue).queue
    /\ report' = [op |-> "clear_completed", result |-> "Ok",
                  removed |-> clear_completed(queue).removed]
    /\ removals' = removals + 1
    /\ UNCHANGED <<build, rankVars, decVars, sanVars, orgVars, poisoned,
                   syncVars, push,
                   translit, processing, nextId, procVars, res>>

\* ------------------------------ processor helpers

\* caller c moves to stage `stage`
Goto(c, stage) == pc' = [pc EXCEPT ![c] = stage]

\* caller c's step writes the status of its job ("W") and emits
\* "queue-update" ("E") in this order
Pushes(c, events) == push' = AfterEvents(push, queue, cur[c], events)

\* a step that emits "queue-update" and writes no status
Emits == push' = AfterEmit(push)

\* the same for the step that begins the processing of the job
PushesFirst(c, events) ==
    push' = AfterEvents(Fresh(push, cur[c]), queue, cur[c], events)

\* the locals of one process-job call, dropped when it returns
ResetLocals(c) ==
    /\ svc' = [svc EXCEPT ![c] = NoneV]
    /\ info' = [info EXCEPT ![c] = NoInfo]
    /\ lp' = [lp EXCEPT ![c] = 0]
    /\ err' = [err EXCEPT ![c] = NoneV]
    /\ qidx' = [qidx EXCEPT ![c] = 0]
    /\ lines' = [lines EXCEPT ![c] = 0]
    /\ meta' = [meta EXCEPT ![c] = NoneV]

\* variant: an `Err` returned by the process-job call ends the loop
ReturnOrAbort(c, r) ==
    /\ Goto(c, IF r = "ok" THEN "find" ELSE "clear")
    /\ res' = [res EXCEPT ![c] = r]
    /\ ResetLocals(c)
    /\ UNCHANGED cur

\* the process-job call of caller c returns `r` ("ok" or an error message) to
\* the loop, which logs it for job cur[c] and goes on to the next Queued job
\* (lib.rs `match process_download_job(..).await { Ok(_) => .., Err(e) => .. }`)
ReturnToLoop(c, r) ==
    /\ Goto(c, "find")
    /\ res' = [res EXCEPT ![c] = r]
    /\ ResetLocals(c)
    /\ UNCHANGED cur

\* outcomes of `fs::create_dir_all(..)?`, `sidecar("yt-dlp")?`, `.spawn()?` run in a row
SpawnOutcomes == {"ok", E_Mkdir, E_Sidecar, E_Spawn}
\* outcomes of `sidecar("yt-dlp")?`, `.spawn()?` run in a row
SidecarOutcomes == {"ok", E_Sidecar, E_Spawn}
\* best tier a ranking-search query can bring
QueryResults == {"Topic", "VEVO", "other"}

\* ------------------------------ monolith: the loop
\* lib.rs start_queue_processing

\* variant: the flag is set without being tested
start_unguarded(c) ==
    /\ build = "monolith"
    /\ pc[c] = "idle"
    /\ processing' = TRUE
    /\ Goto(c, "find")
    /\ UNCHANGED <<build, sideVars, translit, queue, nextId, removals, cur, svc, info, lp, err,
                   qidx, lines, meta, res>>

\* the guard: test and set QUEUE_PROCESSING under its lock
start_queue_processing(c) ==
    /\ build = "monolith"
    /\ pc[c] = "idle"
    /\ IF processing
       THEN /\ Goto(c, "noop")
            /\ UNCHANGED push
            /\ UNCHANGED processing
       ELSE /\ processing' = TRUE
            /\ Emits
            /\ Goto(c, "find")
    /\ UNCHANGED <<build, restVars, translit, queue, nextId, removals, cur, svc, info, lp, err,
                   qidx, lines, meta, res>>

\* `return Ok(())` of a start request that found the flag set
start_noop_return(c) ==
    /\ pc[c] = "noop"
    /\ Goto(c, "idle")
    /\ UNCHANGED <<build, sideVars, translit, queue, processing, nextId, removals, cur,
                   svc, info, lp, err, qidx, lines, meta, res>>

\* loop head: first Queued job, or break
queue_loop_next(c) ==
    /\ build = "monolith"
    /\ pc[c] = "find"
    /\ cur' = [cur EXCEPT ![c] = FirstQueued(queue)]
    /\ res' = [res EXCEPT ![c] = NoneV]
    /\ Goto(c, IF FirstQueued(queue) # NoJob THEN "pdj_info" ELSE "clear")
    /\ UNCHANGED <<build, sideVars, translit, queue, processing, nextId, removals, svc, info,
                   lp, err, qidx, lines, meta>>

\* variant: the loop returns without clearing the flag
queue_loop_exit_flag_kept(c) ==
    /\ build = "monolith"
    /\ pc[c] = "clear"
    /\ Goto(c, "idle")
    /\ UNCHANGED <<build, sideVars, translit, queue, processing, nextId, removals, cur,
                   svc, info, lp, err, qidx, lines, meta, res>>

\* after the loop: clear QUEUE_PROCESSING and return
queue_loop_exit(c) ==
    /\ build = "monolith"
    /\ pc[c] = "clear"
    /\ processing' = FALSE
    /\ Emits
    /\ Goto(c, "idle")
    /\ UNCHANGED <<build, restVars, translit, queue, nextId, removals, cur, svc, info, lp, err,
                   qidx, lines, meta, res>>

\* ------------------------------ shared pipeline pieces

\* One query of the ranking search: status write, then the subprocess is
\* looked up and spawned.  `failTo` is where a failed search is handled.
SearchIssue(c, stage, waitStage, failTo) ==
    /\ pc[c] = stage
    /\ \E o \in SidecarOutcomes :
         /\ queue' = update_job_status(queue, cur[c], "Downloading", 5 + 2 * qidx[c])
         /\ Pushes(c, <<"W", "E">>)
         /\ IF o = "ok"
            THEN /\ Goto(c, waitStage)
                 /\ UNCHANGED err
            ELSE /\ Goto(c, failTo)
                 /\ err' = [err EXCEPT ![c] = o]
    /\ UNCHANGED <<build, restVars, translit, processing, nextId, removals, cur, svc, info, lp,
                   qidx, lines, meta, res>>

\* The query's subprocess has terminated: a Topic candidate ends the search, a
\* VEVO best ends it after this query, otherwise the next query is issued.
SearchResult(c, waitStage, stage, okTo) ==
    /\ pc[c] = waitStage
    /\ \E r \in QueryResults :
         IF r \in {"Topic", "VEVO"} \/ qidx[c] = LastQuery
         THEN /\ Goto(c, okTo)
              /\ qidx' = [qidx EXCEPT ![c] = 0]
         ELSE /\ Goto(c, stage)
              /\ qidx' = [qidx EXCEPT ![c] = qidx[c] + 1]
    /\ UNCHANGED <<build, sideVars, translit, queue, processing, nextId, removals, cur,
                   svc, info, lp, err, lines, meta, res>>

\* output directory, subprocess lookup and spawn, then the first download status
SpawnDownload(c, stage, startProgress, dlStage, failTo) ==
    /\ pc[c] = stage
    /\ \E o \in SpawnOutcomes :
         IF o = "ok"
         THEN /\ queue' = update_job_status(queue, cur[c], "Downloading", startProgress)
              /\ Pushes(c, <<"W">>)
              /\ lp' = [lp EXCEPT ![c] = startProgress]
              /\ Goto(c, dlStage)
              /\ UNCHANGED err
         ELSE /\ err' = [err EXCEPT ![c] = o]
              /\ UNCHANGED push
              /\ Goto(c, failTo)
              /\ UNCHANGED <<queue, lp>>
    /\ UNCHANGED <<build, restVars, translit, processing, nextId, removals, cur, svc, info,
                   qidx, lines, meta, res>>

\* what handling a stdout line with one status write does: the Spotify
\* service of the modular revision writes without an event; the others
\* emit after the write
LineEvents(c) ==
    IF pc[c] = "sp_dl" THEN <<"W">> ELSE <<"W", "E">>

\* the same for a line that brings both writes: the monolith emits once at
\* the end of the line's handling, the modular services other than Spotify
\* after each write
TwoWriteLineEvents(c) ==
    CASE pc[c] = "sp_dl" -> <<"W", "W">>
      [] pc[c] = "pdj_dl" -> <<"W", "W", "E">>
      [] OTHER -> <<"W", "E", "W", "E">>

\* a stdout line: a `[download] NN%` line writes Downloading with the scaled
\* percentage (one of `progresses`), an `[ExtractAudio]` / `[Merger]` line
\* writes Converting, a line that holds both writes one after the other
StdoutLine(c, progresses) ==
    /\ lines[c] < MaxLines
    /\ lines' = [lines EXCEPT ![c] = lines[c] + 1]
    /\ UNCHANGED <<pc, err>>
    /\ \/ \E p \in progresses :
            /\ lp' = [lp EXCEPT ![c] = p]
            /\ queue' = update_job_status(queue, cur[c], "Downloading", p)
            /\ Pushes(c, LineEvents(c))
       \/ /\ queue' = update_job_status(queue, cur[c], "Converting", 92)
          /\ Pushes(c, LineEvents(c))
          /\ UNCHANGED lp
       \/ \E p \in progresses :
            /\ lp' = [lp EXCEPT ![c] = p]
            /\ queue' = update_job_status(
                  update_job_status(queue, cur[c], "Downloading", p),
                  cur[c], "Converting", 92)
            /\ Pushes(c, TwoWriteLineEvents(c))

\* CommandEvent::Error, or Terminated with a code other than 0: Error is
\* written with last_progress
SubprocessFailed(c, failTo) ==
    /\ \E e \in {E_Proc, E_Exit} : err' = [err EXCEPT ![c] = e]
    /\ queue' = update_job_status(queue, cur[c], "Error", lp[c])
    /\ Pushes(c, <<"W">>)
    /\ Goto(c, failTo)
    /\ UNCHANGED <<lp, lines, meta>>

\* Terminated with code 0: `break` leaves the event loop
SubprocessEnded(c, doneTo) ==
    /\ Goto(c, doneTo)
    /\ UNCHANGED push
    /\ UNCHANGED <<queue, lp, lines, meta, err>>

\* where a call stands when `rx.recv()` has answered None: the statement
\* after the loop, which is the one that `break` leads to
ClosedOf(doneTo) ==
    CASE doneTo = "pdj_complete" -> "pdj_closed"
      [] doneTo = "sp_complete" -> "sp_closed"
      [] doneTo = "yt_complete" -> "yt_closed"
      [] doneTo = "am_complete" -> "am_closed"
      [] doneTo = "sc_complete" -> "sc_closed"

\* the event stream ended with no Terminated event: the `while let` ends
StreamClosed(c, doneTo) ==
    /\ Goto(c, ClosedOf(doneTo))
    /\ UNCHANGED push
    /\ UNCHANGED <<queue, lp, lines, meta, err>>

\* the call has left the event loop of the download subprocess, either way
LeftEventLoop(c, doneTo) == pc[c] \in {doneTo, ClosedOf(doneTo)}

\* one event of the download subprocess
DownloadEvent(c, stage, progresses, failTo, doneTo) ==
    /\ pc[c] = stage
    /\ \/ StdoutLine(c, progresses)
       \/ SubprocessFailed(c, failTo)
       \/ SubprocessEnded(c, doneTo)
       \/ StreamClosed(c, doneTo)
    /\ UNCHANGED <<build, restVars, translit, processing, nextId, removals, cur, svc, info,
                   qidx, meta, res>>

\* ------------------------------ file organizer
\* utils/filesystem.rs; lib.rs holds the same sanitizer, and an organizer
\* that differs in the Album arm
\*
\* A string is a sequence of items: single characters, and words (runs of
\* letters and digits, none of them whitespace or one of the replaced
\* characters).  No word is made of other items, so two sequences are equal
\* exactly when the strings are.

\* "Replaces: / \ : * ? " < > | with underscore"
Replaced == {"/", "\\", ":", "*", "?", "\"", "<", ">", "|"}

\* characters `trim` removes from both ends
Whitespace == {" ", "\t"}

\* variant: only leading whitespace is removed
trim_start(s) ==
    LET kept == {i \in 1..Len(s) : s[i] \notin Whitespace}
    IN  IF kept = {}
        THEN <<>>
        ELSE SubSeq(s, CHOOSE i \in kept : \A j \in kept : i <= j, Len(s))

\* `.trim()`: without leading and trailing whitespace
trim(s) ==
    LET kept == {i \in 1..Len(s) : s[i] \notin Whitespace}
    IN  IF kept = {}
        THEN <<>>
        ELSE SubSeq(s, CHOOSE i \in kept : \A j \in kept : i <= j,
                       CHOOSE i \in kept : \A j \in kept : i >= j)

\* sanitize_filename: each replaced character becomes "_", then trim
sanitize_filename(name) ==
    trim([i \in 1..Len(name) |->
             IF name[i] \in Replaced THEN "_" ELSE name[i]])

UnknownArtist == <<"Unknown", " ", "Artist">>
UnknownAlbum == <<"Unknown", " ", "Album">>
UnknownPlaylist == <<"Unknown", " ", "Playlist">>
BaseDir == <<"base">>

\* artist, title and album of the metadata of each source
TrackNames(m) ==
    CASE m = "proxy" -> [artist |-> <<"Artist">>, title |-> <<"Song">>,
                         album |-> <<"Album">>]
      [] m = "catalog" -> [artist |-> <<"Artist">>, title |-> <<"Song">>,
                           album |-> <<"Album">>]
      [] m = "ytdlp" -> [artist |-> <<"Uploader">>, title |-> <<"Video">>,
                         album |-> UnknownAlbum]
      [] OTHER -> [artist |-> UnknownArtist, title |-> <<"Unknown">>,
                   album |-> UnknownAlbum]

\* the Album arm: the modular revision names the folder after
\* `metadata.album`, the monolith after the name held by the context
AlbumFolderName(b, metadata, context) ==
    IF b = "modular" THEN metadata.album ELSE context.name

\* get_organized_output_path: "artist - title.mp3", or "title.mp3" without a
\* known artist, under unsorted/, artist/album/ or the playlist's folder; a
\* path is the sequence of its components
get_organized_output_path(b, base_dir, metadata, context) ==
    LET artist == sanitize_filename(metadata.artist)
        title == sanitize_filename(metadata.title)
        noArtist == artist = <<>> \/ artist = UnknownArtist
        filename == IF noArtist
                    THEN title \o <<".", "mp3">>
                    ELSE artist \o <<" ", "-", " ">> \o title \o <<".", "mp3">>
        album == sanitize_filename(AlbumFolderName(b, metadata, context))
        playlist == sanitize_filename(context.name)
        path == CASE context.kind = "Single" -> <<base_dir, <<"unsorted">>>>
                  [] context.kind = "Album" ->
                       <<base_dir,
                         IF noArtist THEN UnknownArtist ELSE artist,
                         IF album = <<>> THEN UnknownAlbum ELSE album>>
                  [] OTHER ->
                       <<base_dir,
                         IF playlist = <<>> THEN UnknownPlaylist ELSE playlist>>
    IN  Append(path, filename)

\* the context of a job of the engine: an album or a playlist of that name
ContextOf(kind) ==
    CASE kind = "Single" -> [kind |-> "Single", name |-> <<>>]
      [] kind = "Album" -> [kind |-> "Album", name |-> <<"Album">>]
      [] OTHER -> [kind |-> "Playlist", name |-> <<"Playlist">>]

\* the output path of caller c's job, from its local metadata and context
OutputPath(c) ==
    get_organized_output_path(build, BaseDir, TrackNames(meta[c]),
                              ContextOf(info[c].download_context))

\* ---- the sanitizer on its own: a name is sanitized, and the result is
\* sanitized again

MaxNameLen == 4       \* items of a name given to the sanitizer
NameItems == Replaced \cup Whitespace \cup {"_", "x"}
Names == UNION {[1..n -> NameItems] : n \in 0..MaxNameLen}

sanitize_filename_call ==
    /\ sanitized = <<>>
    /\ sanitized' = <<sanitize_filename(name_arg)>>
    /\ UNCHANGED <<engineVars, rankVars, decVars, orgVars, lockVars, name_arg>>

sanitize_filename_again ==
    /\ Len(sanitized) = 1
    /\ sanitized' = Append(sanitized, sanitize_filename(sanitized[1]))
    /\ UNCHANGED <<engineVars, rankVars, decVars, orgVars, lockVars, name_arg>>

InitSanitize ==
    /\ EngineIdle
    /\ build = "modular"
    /\ SearchIdle
    /\ DecryptIdle /\ OrganizeIdle /\ LockIdle
    /\ name_arg \in Names
    /\ sanitized = <<>>

NextSanitize == sanitize_filename_call \/ sanitize_filename_again

SanitizeSpec == InitSanitize /\ [][NextSanitize]_vars

\* ---- the organizer on its own: one call in either revision

SegmentNames ==
    {<<>>, <<" ">>, <<"Artist">>, UnknownArtist, <<" ", "Artist", " ">>,
     <<"AC", "/", "DC">>}
TitleNames == {<<>>, <<"Song">>, <<"What", "?">>}
AlbumNames == {<<>>, <<"Greatest", " ", "Hits">>, <<"Album">>, <<"1", ":", "2">>}
PlaylistNames == {<<>>, <<"Mix">>, <<" ", "Mix", "*">>}
MetadataArgs ==
    [artist : SegmentNames, title : TitleNames, album : AlbumNames]
ContextArgs ==
    {[kind |-> "Single", name |-> <<>>]}
       \cup [kind : {"Album"}, name : AlbumNames]
       \cup [kind : {"Playlist"}, name : PlaylistNames]

get_organized_output_path_call ==
    /\ out_path = NoPath
    /\ out_path' = get_organized_output_path(build, BaseDir, metadata_arg,
                                             context_arg)
    /\ UNCHANGED <<engineVars, rankVars, decVars, sanVars, lockVars,
                   metadata_arg, context_arg>>

InitOrganize ==
    /\ EngineIdle
    /\ build \in Builds
    /\ SearchIdle
    /\ DecryptIdle /\ SanitizeIdle /\ LockIdle
    /\ metadata_arg \in MetadataArgs
    /\ context_arg \in ContextArgs
    /\ out_path = NoPath

NextOrganize == get_organized_output_path_call

OrganizeSpec == InitOrganize /\ [][NextOrganize]_vars

\* ------------------------------ monolith: one job
\* lib.rs process_download_job

Scale90(pct) == (pct * 9) \div 10

\* job details are read; a job that is no longer in the queue ends the call
pdj_get_info(c) ==
    /\ pc[c] = "pdj_info"
    /\ IF HasJob(queue, cur[c])
       THEN /\ svc' = [svc EXCEPT ![c] = JobOf(queue, cur[c]).service]
            /\ info' = [info EXCEPT ![c] = JobInfo(JobOf(queue, cur[c]))]
            /\ Goto(c, "pdj_claim")
            /\ UNCHANGED <<cur, lp, err, qidx, lines, meta, res>>
       ELSE ReturnToLoop(c, E_NotFound)
    /\ UNCHANGED <<build, sideVars, translit, queue, processing, nextId, removals>>

\* "Update job to downloading", then the branch on the service
pdj_claim(c) ==
    /\ pc[c] = "pdj_claim"
    /\ queue' = update_job_status(queue, cur[c], "Downloading", 0)
    /\ PushesFirst(c, <<"W", "E">>)
    /\ Goto(c, CASE svc[c] = "Spotify" -> "pdj_sp_begin"
                 [] svc[c] = "AppleMusic" -> "pdj_am_begin"
                 [] OTHER -> "pdj_meta")
    /\ UNCHANGED <<build, restVars, translit, processing, nextId, removals, cur, svc, info, lp,
                   err, qidx, lines, meta, res>>

\* Spotify step 1: "Getting track info..."
pdj_sp_begin(c) ==
    /\ pc[c] = "pdj_sp_begin"
    /\ queue' = update_job_status(queue, cur[c], "Downloading", 5)
    /\ Pushes(c, <<"W">>)
    /\ Goto(c, "pdj_sp_meta")
    /\ UNCHANGED <<build, restVars, translit, processing, nextId, removals, cur, svc, info, lp,
                   err, qidx, lines, meta, res>>

\* the metadata proxy answers: on failure Error is written and the message
\* is kept for the job; on success the metadata is stored on the job
pdj_sp_meta(c) ==
    /\ pc[c] = "pdj_sp_meta"
    /\ \/ /\ queue' = update_job_status(queue, cur[c], "Error", 0)
          /\ Pushes(c, <<"W">>)
          /\ err' = [err EXCEPT ![c] = E_SpotifyMeta]
          /\ Goto(c, "pdj_fail")
          /\ UNCHANGED meta
       \/ /\ queue' = update_job_metadata(queue, cur[c], "original")
          /\ UNCHANGED push
          /\ meta' = [meta EXCEPT ![c] = "proxy"]
          /\ Goto(c, "pdj_sp_token")
          /\ UNCHANGED err
    /\ UNCHANGED <<build, restVars, translit, processing, nextId, removals, cur, svc, info, lp,
                   qidx, lines, res>>

\* "Trying Deezer...", then the bearer token is read
pdj_sp_token(c) ==
    /\ pc[c] = "pdj_sp_token"
    /\ queue' = update_job_status(queue, cur[c], "Downloading", 10)
    /\ Pushes(c, <<"W">>)
    /\ \E token \in BOOLEAN :
          Goto(c, IF token THEN "pdj_sp_direct" ELSE "pdj_sp_fallback")
    /\ UNCHANGED <<build, restVars, translit, processing, nextId, removals, cur, svc, info, lp,
                   err, qidx, lines, meta, res>>

\* the direct path answers: success completes the job, a failure falls back
pdj_sp_direct(c) ==
    /\ pc[c] = "pdj_sp_direct"
    /\ \/ /\ queue' = update_job_status(queue, cur[c], "Complete", 100)
          /\ Pushes(c, <<"W">>)
          /\ Goto(c, "pdj_finish")
       \/ /\ Goto(c, "pdj_sp_fallback")
          /\ UNCHANGED push
          /\ UNCHANGED queue
    /\ UNCHANGED <<build, restVars, translit, processing, nextId, removals, cur, svc, info, lp,
                   err, qidx, lines, meta, res>>

\* "Step 3: Fallback to YouTube": "Searching: .."
pdj_sp_fallback(c) ==
    /\ pc[c] = "pdj_sp_fallback"
    /\ queue' = update_job_status(queue, cur[c], "Downloading", 15)
    /\ Pushes(c, <<"W">>)
    /\ Goto(c, "pdj_search")
    /\ UNCHANGED <<build, restVars, translit, processing, nextId, removals, cur, svc, info, lp,
                   err, qidx, lines, meta, res>>

\* Apple Music: "Fetching Apple Music track info..."; get_apple_music_track_info
\* refuses a page URL before any request is made
pdj_am_begin(c) ==
    /\ pc[c] = "pdj_am_begin"
    /\ queue' = update_job_status(queue, cur[c], "Downloading", 2)
    /\ Pushes(c, <<"W", "E">>)
    /\ IF info[c].url = "page"
       THEN /\ err' = [err EXCEPT ![c] = E_ArtistPage]
            /\ Goto(c, "pdj_return_err")
       ELSE /\ Goto(c, "pdj_am_info")
            /\ UNCHANGED err
    /\ UNCHANGED <<build, restVars, translit, processing, nextId, removals, cur, svc, info, lp,
                   qidx, lines, meta, res>>

\* the catalog lookup answers: on failure `return Err(e)`, nothing is
\* written to the job; on success "Finding best quality: .."
pdj_am_info(c) ==
    /\ pc[c] = "pdj_am_info"
    /\ \/ /\ ReturnToLoop(c, E_Lookup)
          /\ UNCHANGED push
          /\ UNCHANGED queue
       \/ /\ queue' = update_job_status(queue, cur[c], "Downloading", 3)
          /\ Pushes(c, <<"W", "E">>)
          /\ meta' = [meta EXCEPT ![c] = "catalog"]
          /\ Goto(c, "pdj_search")
          /\ UNCHANGED <<cur, svc, info, lp, err, qidx, lines, res>>
    /\ UNCHANGED <<build, restVars, translit, processing, nextId, removals>>

\* find_best_youtube_source: a query is issued
find_best_youtube_source(c) ==
    SearchIssue(c, "pdj_search", "pdj_search_wait", "pdj_search_failed")

\* find_best_youtube_source: the query's results are analysed
find_best_youtube_source_result(c) ==
    SearchResult(c, "pdj_search_wait", "pdj_search", "pdj_meta")

\* the caller's `Err(e)` arm of the search: Spotify writes Error and keeps
\* "YouTube search failed"; Apple Music goes on with a plain search string
pdj_search_failed(c) ==
    /\ pc[c] = "pdj_search_failed"
    /\ IF svc[c] = "Spotify"
       THEN /\ queue' = update_job_status(queue, cur[c], "Error", 0)
            /\ Pushes(c, <<"W">>)
            /\ err' = [err EXCEPT ![c] = E_Search]
            /\ Goto(c, "pdj_fail")
       ELSE /\ err' = [err EXCEPT ![c] = NoneV]
            /\ UNCHANGED push
            /\ Goto(c, "pdj_meta")
            /\ UNCHANGED queue
    /\ qidx' = [qidx EXCEPT ![c] = 0]
    /\ UNCHANGED <<build, restVars, translit, processing, nextId, removals, cur, svc, info, lp,
                   lines, meta, res>>

\* "Fetching metadata...": Apple Music uses the lookup's answer, every other
\* service spawns the metadata-only invocation, whose `?` failures return
pdj_meta(c) ==
    /\ pc[c] = "pdj_meta"
    /\ Pushes(c, <<"W", "E">>)
    /\ IF svc[c] = "AppleMusic"
       THEN /\ queue' = update_job_status(queue, cur[c], "Downloading", 8)
            /\ Goto(c, "pdj_meta_wait")
            /\ UNCHANGED <<cur, svc, info, lp, err, qidx, lines, meta, res>>
       ELSE \E o \in SidecarOutcomes :
              /\ queue' = update_job_status(queue, cur[c], "Downloading", 8)
              /\ IF o = "ok"
                 THEN /\ Goto(c, "pdj_meta_wait")
                      /\ UNCHANGED <<cur, svc, info, lp, err, qidx, lines, meta, res>>
                 ELSE ReturnToLoop(c, o)
    /\ UNCHANGED <<build, restVars, translit, processing, nextId, removals>>

\* "Update job with metadata": Apple Music stores the lookup's answer; for
\* the other services the metadata-only invocation has terminated and
\* parse_ytdlp_metadata gives the parsed answer, or TrackMetadata::default()
\* when the output does not parse
pdj_meta_wait(c) ==
    /\ pc[c] = "pdj_meta_wait"
    /\ queue' = update_job_metadata(queue, cur[c], "original")
    /\ Emits
    /\ IF svc[c] = "AppleMusic"
       THEN UNCHANGED meta
       ELSE \E m \in {"ytdlp", "unknown"} : meta' = [meta EXCEPT ![c] = m]
    /\ Goto(c, "pdj_spawn")
    /\ UNCHANGED <<build, restVars, translit, processing, nextId, removals, cur, svc, info, lp,
                   err, qidx, lines, res>>

\* output directory and download subprocess; their `?` failures return
pdj_spawn(c) ==
    SpawnDownload(c, "pdj_spawn", 5, "pdj_dl", "pdj_return_err")

\* a `?` failure: `return Err(e)` with nothing written to the job
pdj_return_err(c) ==
    /\ pc[c] = "pdj_return_err"
    /\ ReturnToLoop(c, err[c])
    /\ UNCHANGED <<build, sideVars, translit, queue, processing, nextId, removals>>

\* "Listen to progress"
pdj_download_event(c) ==
    DownloadEvent(c, "pdj_dl", {Scale90(pct) : pct \in Pcts},
                  "pdj_fail", "pdj_complete")

\* the `job.error = Some(..)` section of a failure arm, then `return Err(..)`
pdj_fail(c) ==
    /\ pc[c] = "pdj_fail"
    /\ queue' = set_job_error(queue, cur[c], err[c])
    /\ Emits
    /\ ReturnToLoop(c, err[c])
    /\ UNCHANGED <<build, restVars, translit, processing, nextId, removals>>

\* "Mark as complete"
pdj_complete(c) ==
    /\ LeftEventLoop(c, "pdj_complete")
    /\ queue' = update_job_status(queue, cur[c], "Complete", 100)
    /\ Pushes(c, <<"W">>)
    /\ Goto(c, "pdj_finish")
    /\ UNCHANGED <<build, restVars, translit, processing, nextId, removals, cur, svc, info, lp,
                   err, qidx, lines, meta, res>>

\* completed_at and output_path are set, then `Ok(..)`
pdj_finish(c) ==
    /\ pc[c] = "pdj_finish"
    /\ queue' = set_job_output(queue, cur[c], OutputPath(c))
    /\ Emits
    /\ ReturnToLoop(c, "ok")
    /\ UNCHANGED <<build, restVars, translit, processing, nextId, removals>>

process_download_job(c) ==
    \/ pdj_get_info(c) \/ pdj_claim(c)
    \/ pdj_sp_begin(c) \/ pdj_sp_meta(c) \/ pdj_sp_token(c)
    \/ pdj_sp_direct(c) \/ pdj_sp_fallback(c)
    \/ pdj_am_begin(c) \/ pdj_am_info(c)
    \/ find_best_youtube_source(c) \/ find_best_youtube_source_result(c)
    \/ pdj_search_failed(c)
    \/ pdj_meta(c) \/ pdj_meta_wait(c) \/ pdj_spawn(c) \/ pdj_return_err(c)
    \/ pdj_download_event(c) \/ pdj_fail(c) \/ pdj_complete(c) \/ pdj_finish(c)

\* ------------------------------ modular: the loop
\* commands.rs start_queue_processing delegates to QueueManager::start_processing,
\* which is not among the sources: the guard and the loop around
\* get_next_queued_job / JobProcessor::process_job / set_processing follow the
\* design document (section 4.2).

\* variant: a job that ended in Error is taken again
get_next_unfinished_job(q) ==
    IF \E i \in DOMAIN q : q[i].status \in {"Queued", "Error"}
    THEN q[CHOOSE i \in DOMAIN q :
              /\ q[i].status \in {"Queued", "Error"}
              /\ \A k \in 1..(i - 1) : q[k].status \notin {"Queued", "Error"}].id
    ELSE NoJob

\* QueueManager::get_next_queued_job
get_next_queued_job(q) ==
    IF \E i \in DOMAIN q : q[i].status = "Queued"
    THEN q[CHOOSE i \in DOMAIN q :
              /\ q[i].status = "Queued"
              /\ \A k \in 1..(i - 1) : q[k].status # "Queued"].id
    ELSE NoJob

\* the guard: a second start request while a loop is active is a no-op success
start_processing(c) ==
    /\ build = "modular"
    /\ pc[c] = "idle"
    /\ IF processing
       THEN /\ Goto(c, "noop")
            /\ UNCHANGED processing
       ELSE /\ processing' = TRUE
            /\ Goto(c, "find")
    /\ UNCHANGED <<build, sideVars, translit, queue, nextId, removals, cur, svc, info, lp, err,
                   qidx, lines, meta, res>>

\* find the first Queued job; if none, stop
start_processing_next(c) ==
    /\ build = "modular"
    /\ pc[c] = "find"
    /\ cur' = [cur EXCEPT ![c] = get_next_queued_job(queue)]
    /\ res' = [res EXCEPT ![c] = NoneV]
    /\ Goto(c, IF get_next_queued_job(queue) # NoJob THEN "pj_info" ELSE "clear")
    /\ UNCHANGED <<build, sideVars, translit, queue, processing, nextId, removals, svc, info,
                   lp, err, qidx, lines, meta>>

\* clear the guard (QueueManager::set_processing(false))
start_processing_exit(c) ==
    /\ build = "modular"
    /\ pc[c] = "clear"
    /\ processing' = FALSE
    /\ Goto(c, "idle")
    /\ UNCHANGED <<build, sideVars, translit, queue, nextId, removals, cur, svc, info, lp, err,
                   qidx, lines, meta, res>>

\* ------------------------------ modular: one job
\* download/processor.rs JobProcessor::process_job

\* QueueManager::get_job_info(&job_id)?
pj_get_info(c) ==
    /\ pc[c] = "pj_info"
    /\ IF HasJob(queue, cur[c])
       THEN /\ svc' = [svc EXCEPT ![c] = JobOf(queue, cur[c]).service]
            /\ info' = [info EXCEPT ![c] = JobInfo(JobOf(queue, cur[c]))]
            /\ Goto(c, "pj_claim")
            /\ UNCHANGED <<cur, lp, err, qidx, lines, meta, res>>
       ELSE ReturnToLoop(c, E_NotFound)
    /\ UNCHANGED <<build, sideVars, translit, queue, processing, nextId, removals>>

\* "Update job to downloading", then the dispatch on the service
pj_claim(c) ==
    /\ pc[c] = "pj_claim"
    /\ queue' = update_job_status(queue, cur[c], "Downloading", 0)
    /\ PushesFirst(c, <<"W", "E">>)
    /\ Goto(c, CASE svc[c] = "Spotify" -> "sp_begin"
                 [] svc[c] = "AppleMusic" -> "am_begin"
                 [] svc[c] = "YouTube" -> "yt_begin"
                 [] svc[c] = "SoundCloud" -> "sc_begin"
                 [] OTHER -> "pj_unsupported")
    /\ UNCHANGED <<build, restVars, translit, processing, nextId, removals, cur, svc, info, lp,
                   err, qidx, lines, meta, res>>

\* `_ => Err("Unsupported service: ..")`
pj_unsupported(c) ==
    /\ pc[c] = "pj_unsupported"
    /\ err' = [err EXCEPT ![c] = E_Unsupported]
    /\ Goto(c, "pj_err")
    /\ UNCHANGED <<build, sideVars, translit, queue, processing, nextId, removals, cur,
                   svc, info, lp, qidx, lines, meta, res>>

\* `Ok(output_path)`: output path and completion time are stored
pj_ok(c) ==
    /\ pc[c] = "pj_ok"
    /\ queue' = set_job_output(queue, cur[c], OutputPath(c))
    /\ Emits
    /\ ReturnToLoop(c, "ok")
    /\ UNCHANGED <<build, restVars, translit, processing, nextId, removals>>

\* `Err(e)`: update_job_status(Error, 0.0, &e)
pj_err(c) ==
    /\ pc[c] = "pj_err"
    /\ queue' = update_job_status(queue, cur[c], "Error", 0)
    /\ Pushes(c, <<"W">>)
    /\ Goto(c, "pj_err_record")
    /\ UNCHANGED <<build, restVars, translit, processing, nextId, removals, cur, svc, info, lp,
                   err, qidx, lines, meta, res>>

\* `Err(e)`: job.error = Some(e), then `Err(e)` is returned
pj_err_record(c) ==
    /\ pc[c] = "pj_err_record"
    /\ queue' = set_job_error(queue, cur[c], err[c])
    /\ Emits
    /\ ReturnToLoop(c, err[c])
    /\ UNCHANGED <<build, restVars, translit, processing, nextId, removals>>

\* update_metadata_fn, first half: the transliteration task is spawned
spawn_transliteration(c, next) ==
    /\ translit' = translit \cup {cur[c]}
    /\ Goto(c, next)

\* the services that call emit_queue_fn right after update_metadata_fn
EmittingStores == {"yt_store", "sc_store"}

\* variant: update_metadata_fn leaves the store to the spawned task
store_by_task_only(c, stage, next) ==
    /\ pc[c] = stage
    /\ IF stage \in EmittingStores THEN Emits ELSE UNCHANGED push
    /\ Goto(c, next)
    /\ UNCHANGED <<build, restVars, translit, queue, processing, nextId, removals,
                   cur, svc, info, lp, err, qidx, lines, meta, res>>

\* update_metadata_fn, second half: "Also update immediately with original"
store_original(c, stage, next) ==
    /\ pc[c] = stage
    /\ queue' = update_job_metadata(queue, cur[c], "original")
    /\ IF stage \in EmittingStores THEN Emits ELSE UNCHANGED push
    /\ Goto(c, next)
    /\ UNCHANGED <<build, restVars, translit, processing, nextId, removals, cur, svc, info, lp,
                   err, qidx, lines, meta, res>>

\* the spawned task: transliterate_if_needed answers, its result (or, on
\* error, the original) is stored on the job if it is still in the queue
transliteration_task(id) ==
    /\ id \in translit
    /\ translit' = translit \ {id}
    /\ \E m \in {"transliterated", "original"} :
          queue' = update_job_metadata(queue, id, m)
    /\ UNCHANGED <<build, sideVars, processing, nextId, removals, procVars, res>>

\* ---- download/services/spotify.rs SpotifyDownloader::download_track

SpotifyScale(pct) == 20 + (pct * 7) \div 10

\* "Getting track info..."
sp_begin(c) ==
    /\ pc[c] = "sp_begin"
    /\ queue' = update_job_status(queue, cur[c], "Downloading", 5)
    /\ Pushes(c, <<"W", "E">>)
    /\ Goto(c, "sp_meta")
    /\ UNCHANGED <<build, restVars, translit, processing, nextId, removals, cur, svc, info, lp,
                   err, qidx, lines, meta, res>>

\* get_metadata_from_api(url).await?; then update_metadata_fn is called
sp_meta(c) ==
    /\ pc[c] = "sp_meta"
    /\ \/ /\ err' = [err EXCEPT ![c] = E_SpotifyMeta]
          /\ Goto(c, "pj_err")
          /\ UNCHANGED <<translit, meta>>
       \/ /\ meta' = [meta EXCEPT ![c] = "proxy"]
          /\ spawn_transliteration(c, "sp_store")
          /\ UNCHANGED err
    /\ UNCHANGED <<build, sideVars, queue, processing, nextId, removals, cur, svc, info, lp,
                   qidx, lines, res>>

\* the original metadata is stored
sp_store(c) == store_original(c, "sp_store", "sp_token")

\* "Trying Deezer...", then the bearer token is read
sp_token(c) ==
    /\ pc[c] = "sp_token"
    /\ queue' = update_job_status(queue, cur[c], "Downloading", 10)
    /\ Pushes(c, <<"W", "E">>)
    /\ \E token \in BOOLEAN :
          Goto(c, IF token THEN "sp_direct" ELSE "sp_fallback")
    /\ UNCHANGED <<build, restVars, translit, processing, nextId, removals, cur, svc, info, lp,
                   err, qidx, lines, meta, res>>

\* variant: the direct path's error is propagated with `?`
sp_direct_propagating(c) ==
    /\ pc[c] = "sp_direct"
    /\ \/ /\ queue' = update_job_status(queue, cur[c], "Complete", 100)
          /\ Pushes(c, <<"W", "E">>)
          /\ Goto(c, "pj_ok")
          /\ UNCHANGED err
       \/ /\ err' = [err EXCEPT ![c] = E_Direct]
          /\ UNCHANGED push
          /\ Goto(c, "pj_err")
          /\ UNCHANGED queue
    /\ UNCHANGED <<build, restVars, translit, processing, nextId, removals, cur, svc, info, lp,
                   qidx, lines, meta, res>>

\* DeezerDownloader::download_and_decrypt(..).await: Ok completes the job,
\* Err falls back to the search
sp_direct(c) ==
    /\ pc[c] = "sp_direct"
    /\ \/ /\ queue' = update_job_status(queue, cur[c], "Complete", 100)
          /\ Pushes(c, <<"W", "E">>)
          /\ Goto(c, "pj_ok")
       \/ /\ Goto(c, "sp_fallback")
          /\ UNCHANGED push
          /\ UNCHANGED queue
    /\ UNCHANGED <<build, restVars, translit, processing, nextId, removals, cur, svc, info, lp,
                   err, qidx, lines, meta, res>>

\* "Step 5: Fallback to YouTube": "Searching: .."
sp_fallback(c) ==
    /\ pc[c] = "sp_fallback"
    /\ queue' = update_job_status(queue, cur[c], "Downloading", 15)
    /\ Pushes(c, <<"W", "E">>)
    /\ Goto(c, "sp_search")
    /\ UNCHANGED <<build, restVars, translit, processing, nextId, removals, cur, svc, info, lp,
                   err, qidx, lines, meta, res>>

\* YouTubeDownloader::find_best_source(..).await?: a query is issued
sp_search(c) == SearchIssue(c, "sp_search", "sp_search_wait", "pj_err")

\* its results are analysed
sp_search_result(c) == SearchResult(c, "sp_search_wait", "sp_search", "sp_spawn")

\* "Step 6": output directory and download subprocess, then "Downloading..."
sp_spawn(c) == SpawnDownload(c, "sp_spawn", 20, "sp_dl", "pj_err")

\* the event loop of the download subprocess
sp_download_event(c) ==
    DownloadEvent(c, "sp_dl", {SpotifyScale(pct) : pct \in Pcts},
                  "pj_err", "sp_complete")

\* "Download complete!", then `Ok(output_path_str)`
sp_complete(c) ==
    /\ LeftEventLoop(c, "sp_complete")
    /\ queue' = update_job_status(queue, cur[c], "Complete", 100)
    /\ Pushes(c, <<"W", "E">>)
    /\ Goto(c, "pj_ok")
    /\ UNCHANGED <<build, restVars, translit, processing, nextId, removals, cur, svc, info, lp,
                   err, qidx, lines, meta, res>>

SpotifyDownloader(c) ==
    \/ sp_begin(c) \/ sp_meta(c) \/ sp_store(c) \/ sp_token(c)
    \/ sp_direct(c) \/ sp_fallback(c)
    \/ sp_search(c) \/ sp_search_result(c) \/ sp_spawn(c)
    \/ sp_download_event(c) \/ sp_complete(c)

\* ---- download/services/youtube.rs YouTubeDownloader::download_track

YouTubeScale(pct) == (pct * 9) \div 10

\* "Fetching metadata...", then the metadata-only invocation is spawned
yt_begin(c) ==
    /\ pc[c] = "yt_begin"
    /\ \E o \in SidecarOutcomes :
         /\ queue' = update_job_status(queue, cur[c], "Downloading", 8)
         /\ Pushes(c, <<"W", "E">>)
         /\ IF o = "ok"
            THEN /\ Goto(c, "yt_meta_wait")
                 /\ UNCHANGED err
            ELSE /\ err' = [err EXCEPT ![c] = o]
                 /\ Goto(c, "pj_err")
    /\ UNCHANGED <<build, restVars, translit, processing, nextId, removals, cur, svc, info, lp,
                   qidx, lines, meta, res>>

\* the metadata-only invocation has terminated; update_metadata_fn is called
yt_meta_wait(c) ==
    /\ pc[c] = "yt_meta_wait"
    /\ \E m \in {"ytdlp", "unknown"} : meta' = [meta EXCEPT ![c] = m]
    /\ spawn_transliteration(c, "yt_store")
    /\ UNCHANGED <<build, sideVars, queue, processing, nextId, removals, cur, svc, info, lp,
                   err, qidx, lines, res>>

\* the original metadata is stored
yt_store(c) == store_original(c, "yt_store", "yt_spawn")

\* output directory and download subprocess, then "Downloading..."
yt_spawn(c) == SpawnDownload(c, "yt_spawn", 5, "yt_dl", "pj_err")

\* "Step 5: Listen to progress"
yt_download_event(c) ==
    DownloadEvent(c, "yt_dl", {YouTubeScale(pct) : pct \in Pcts},
                  "pj_err", "yt_complete")

\* "Download complete!", then `Ok(output_path)`
yt_complete(c) ==
    /\ LeftEventLoop(c, "yt_complete")
    /\ queue' = update_job_status(queue, cur[c], "Complete", 100)
    /\ Pushes(c, <<"W", "E">>)
    /\ Goto(c, "pj_ok")
    /\ UNCHANGED <<build, restVars, translit, processing, nextId, removals, cur, svc, info, lp,
                   err, qidx, lines, meta, res>>

YouTubeDownloader(c) ==
    \/ yt_begin(c) \/ yt_meta_wait(c) \/ yt_store(c) \/ yt_spawn(c)
    \/ yt_download_event(c) \/ yt_complete(c)

\* ---- download/services/apple_music.rs AppleMusicDownloader::download_track

AppleMusicScale(pct) == 10 + (pct * 8) \div 10

\* "Fetching Apple Music track info..."; get_track_info refuses a page URL
\* before any request is made
am_begin(c) ==
    /\ pc[c] = "am_begin"
    /\ queue' = update_job_status(queue, cur[c], "Downloading", 2)
    /\ Pushes(c, <<"W", "E">>)
    /\ IF info[c].url = "page"
       THEN /\ err' = [err EXCEPT ![c] = E_ArtistPage]
            /\ Goto(c, "pj_err")
       ELSE /\ Goto(c, "am_info")
            /\ UNCHANGED err
    /\ UNCHANGED <<build, restVars, translit, processing, nextId, removals, cur, svc, info, lp,
                   qidx, lines, meta, res>>

\* Self::get_track_info(url).await?; then update_metadata_fn is called
am_info(c) ==
    /\ pc[c] = "am_info"
    /\ \/ /\ err' = [err EXCEPT ![c] = E_Lookup]
          /\ Goto(c, "pj_err")
          /\ UNCHANGED <<translit, meta>>
       \/ /\ meta' = [meta EXCEPT ![c] = "catalog"]
          /\ spawn_transliteration(c, "am_store")
          /\ UNCHANGED err
    /\ UNCHANGED <<build, sideVars, queue, processing, nextId, removals, cur, svc, info, lp,
                   qidx, lines, res>>

\* the original metadata is stored
am_store(c) == store_original(c, "am_store", "am_find")

\* "Finding best quality: .."
am_find(c) ==
    /\ pc[c] = "am_find"
    /\ queue' = update_job_status(queue, cur[c], "Downloading", 3)
    /\ Pushes(c, <<"W", "E">>)
    /\ Goto(c, "am_search")
    /\ UNCHANGED <<build, restVars, translit, processing, nextId, removals, cur, svc, info, lp,
                   err, qidx, lines, meta, res>>

\* YouTubeDownloader::find_best_source(..).await?: a query is issued
am_search(c) == SearchIssue(c, "am_search", "am_search_wait", "pj_err")

\* its results are analysed
am_search_result(c) == SearchResult(c, "am_search_wait", "am_search", "am_spawn")

\* output directory and download subprocess, then "Downloading..."
am_spawn(c) == SpawnDownload(c, "am_spawn", 10, "am_dl", "pj_err")

\* the event loop of the download subprocess
am_download_event(c) ==
    DownloadEvent(c, "am_dl", {AppleMusicScale(pct) : pct \in Pcts},
                  "pj_err", "am_complete")

\* "Download complete!", then `Ok(output_path)`
am_complete(c) ==
    /\ LeftEventLoop(c, "am_complete")
    /\ queue' = update_job_status(queue, cur[c], "Complete", 100)
    /\ Pushes(c, <<"W", "E">>)
    /\ Goto(c, "pj_ok")
    /\ UNCHANGED <<build, restVars, translit, processing, nextId, removals, cur, svc, info, lp,
                   err, qidx, lines, meta, res>>

AppleMusicDownloader(c) ==
    \/ am_begin(c) \/ am_info(c) \/ am_store(c) \/ am_find(c)
    \/ am_search(c) \/ am_search_result(c)
    \/ am_spawn(c) \/ am_download_event(c) \/ am_complete(c)

\* ---- download/services/soundcloud.rs SoundCloudDownloader::download_track

SoundCloudScale(pct) == (pct * 9) \div 10

\* "Fetching metadata...", then the metadata-only invocation is spawned
sc_begin(c) ==
    /\ pc[c] = "sc_begin"
    /\ \E o \in SidecarOutcomes :
         /\ queue' = update_job_status(queue, cur[c], "Downloading", 5)
         /\ Pushes(c, <<"W", "E">>)
         /\ IF o = "ok"
            THEN /\ Goto(c, "sc_meta_wait")
                 /\ UNCHANGED err
            ELSE /\ err' = [err EXCEPT ![c] = o]
                 /\ Goto(c, "pj_err")
    /\ UNCHANGED <<build, restVars, translit, processing, nextId, removals, cur, svc, info, lp,
                   qidx, lines, meta, res>>

\* the metadata-only invocation has terminated; update_metadata_fn is called
sc_meta_wait(c) ==
    /\ pc[c] = "sc_meta_wait"
    /\ \E m \in {"ytdlp", "unknown"} : meta' = [meta EXCEPT ![c] = m]
    /\ spawn_transliteration(c, "sc_store")
    /\ UNCHANGED <<build, sideVars, queue, processing, nextId, removals, cur, svc, info, lp,
                   err, qidx, lines, res>>

\* the original metadata is stored
sc_store(c) == store_original(c, "sc_store", "sc_spawn")

\* output directory and download subprocess, then "Downloading..."
sc_spawn(c) == SpawnDownload(c, "sc_spawn", 10, "sc_dl", "pj_err")

\* "Step 4: Listen to progress"
sc_download_event(c) ==
    DownloadEvent(c, "sc_dl", {SoundCloudScale(pct) : pct \in Pcts},
                  "pj_err", "sc_complete")

\* "Download complete!", then `Ok(output_path)`
sc_complete(c) ==
    /\ LeftEventLoop(c, "sc_complete")
    /\ queue' = update_job_status(queue, cur[c], "Complete", 100)
    /\ Pushes(c, <<"W", "E">>)
    /\ Goto(c, "pj_ok")
    /\ UNCHANGED <<build, restVars, translit, processing, nextId, removals, cur, svc, info, lp,
                   err, qidx, lines, meta, res>>

SoundCloudDownloader(c) ==
    \/ sc_begin(c) \/ sc_meta_wait(c) \/ sc_store(c) \/ sc_spawn(c)
    \/ sc_download_event(c) \/ sc_complete(c)

process_job(c) ==
    \/ pj_get_info(c) \/ pj_claim(c) \/ pj_unsupported(c)
    \/ SpotifyDownloader(c) \/ YouTubeDownloader(c) \/ AppleMusicDownloader(c)
    \/ SoundCloudDownloader(c)
    \/ pj_ok(c) \/ pj_err(c) \/ pj_err_record(c)

\* ------------------------------ specification

Enqueue == \E s \in EnqueuedServices : add_to_queue(s)
Remove == \E id \in JobIds : remove_from_queue(id)
Start == \E c \in Callers : start_queue_processing(c) \/ start_processing(c)

\* the steps caller c takes once its start request is in
LoopOf(c) ==
    \/ start_noop_return(c)
    \/ queue_loop_next(c) \/ queue_loop_exit(c)
    \/ start_processing_next(c) \/ start_processing_exit(c)
ProcessOf(c) == process_download_job(c) \/ process_job(c)

Loop == \E c \in Callers : LoopOf(c)
Process == \E c \in Callers : ProcessOf(c)
Background == \E id \in JobIds : transliteration_task(id)

Next ==
    \/ Enqueue \/ Remove \/ clear_completed_jobs
    \/ Start \/ Loop \/ Process \/ Background

Spec == Init /\ [][Next]_vars

\* ---- the three-job scenario: three jobs are queued (the first and the
\* third of one service), nothing else is submitted or removed, and every
\* external call eventually returns: the async runtime keeps polling a
\* started command until it returns, which is the weak fairness below

InitThreeQueued ==
    /\ build \in Builds
    /\ \E s, t \in EnqueuedServices :
          queue = <<NewJob(1, s), NewJob(2, t), NewJob(3, s)>>
    /\ processing = FALSE
    /\ nextId = 4
    /\ removals = 0
    /\ pc = [c \in Callers |-> "idle"]
    /\ cur = [c \in Callers |-> NoJob]
    /\ svc = [c \in Callers |-> NoneV]
    /\ info = [c \in Callers |-> NoInfo]
    /\ lp = [c \in Callers |-> 0]
    /\ err = [c \in Callers |-> NoneV]
    /\ qidx = [c \in Callers |-> 0]
    /\ lines = [c \in Callers |-> 0]
    /\ meta = [c \in Callers |-> NoneV]
    /\ res = [c \in Callers |-> NoneV]
    /\ translit = {}
    /\ push = NothingPending
    /\ SearchIdle
    /\ FnIdle

\* one start request is issued at a time
StartOfScenario == start_queue_processing(1) \/ start_processing(1)

LoopOfScenario == \E c \in Callers :
    \/ queue_loop_next(c) \/ queue_loop_exit(c)
    \/ start_processing_next(c) \/ start_processing_exit(c)

NextOfScenario == StartOfScenario \/ LoopOfScenario \/ Process

FairSpec ==
    /\ InitThreeQueued
    /\ [][NextOfScenario]_vars
    /\ \A c \in Callers : WF_vars(LoopOf(c) \/ ProcessOf(c))

\* ---- the download commands: download_youtube / download_spotify add the
\* URL to the queue and then await the start request; every command that has
\* queued its job goes on to its start request, and every started call is
\* polled until it returns

\* `let job = add_to_queue(url)?;`
download_command_add(c) ==
    /\ pc[c] = "idle"
    /\ nextId <= MaxJobs
    /\ \E s \in EnqueuedServices : queue' = Append(queue, NewJob(nextId, s))
    /\ nextId' = nextId + 1
    /\ Goto(c, "cmd_start")
    /\ UNCHANGED <<build, sideVars, translit, processing, removals, cur, svc, info,
                   lp, err, qidx, lines, meta, res>>

\* `start_queue_processing(app).await?`: the guard of the start request
download_command_start(c) ==
    /\ pc[c] = "cmd_start"
    /\ IF processing
       THEN /\ Goto(c, "noop")
            /\ UNCHANGED push
            /\ UNCHANGED processing
       ELSE /\ processing' = TRUE
            /\ IF build = "monolith" THEN Emits ELSE UNCHANGED push
            /\ Goto(c, "find")
    /\ UNCHANGED <<build, restVars, translit, queue, nextId, removals, cur, svc, info, lp, err,
                   qidx, lines, meta, res>>

NextOfCommands ==
    \/ \E c \in Callers : download_command_add(c)
    \/ \E c \in Callers : download_command_start(c)
    \/ Loop
    \/ Process
    \/ Background

CommandSpec ==
    /\ Init
    /\ [][NextOfCommands]_vars
    /\ \A c \in Callers :
          WF_vars(download_command_start(c) \/ LoopOf(c) \/ ProcessOf(c))

\* ---- one job of any service, URL form and context is queued; nothing else
\* is submitted

InitOneQueued ==
    /\ build \in Builds
    /\ \E s \in MusicService, u \in UrlForms, x \in DownloadContext :
          queue = <<NewJobFor(1, s, u, x)>>
    /\ processing = FALSE
    /\ nextId = 2
    /\ removals = 0
    /\ pc = [c \in Callers |-> "idle"]
    /\ cur = [c \in Callers |-> NoJob]
    /\ svc = [c \in Callers |-> NoneV]
    /\ info = [c \in Callers |-> NoInfo]
    /\ lp = [c \in Callers |-> 0]
    /\ err = [c \in Callers |-> NoneV]
    /\ qidx = [c \in Callers |-> 0]
    /\ lines = [c \in Callers |-> 0]
    /\ meta = [c \in Callers |-> NoneV]
    /\ res = [c \in Callers |-> NoneV]
    /\ translit = {}
    /\ push = NothingPending
    /\ SearchIdle
    /\ FnIdle

NextOfOneJob ==
    \/ Remove \/ clear_completed_jobs
    \/ Start \/ Loop \/ Process \/ Background

ResolveSpec == InitOneQueued /\ [][NextOfOneJob]_vars

\* ------------------------------ ranking search: one call
\* download/services/youtube.rs YouTubeDownloader::find_best_source
\* (lib.rs find_best_youtube_source is the same code)

\* variant: a candidate is kept unless its tier is higher than the best's
DominatedByLower(best, result) ==
    best # NoResult /\ TierRank(result.tier) >= TierRank(best.tier)

\* `result.tier <= best.tier` for a kept best: the candidate is dropped
Dominated(best, result) ==
    best # NoResult /\ TierRank(result.tier) <= TierRank(best.tier)

\* "Analyze results from this search": the JSON lines of one query are
\* scanned in order; `hit` is the URL of a Topic candidate that ended the call
RECURSIVE ScanLines(_, _)
ScanLines(best, json_lines) ==
    IF json_lines = <<>>
    THEN [best |-> best, hit |-> NoneV]
    ELSE LET result == analyze_youtube_result(Head(json_lines))
         IN  IF result = NoResult \/ Dominated(best, result)
             THEN ScanLines(best, Tail(json_lines))
             ELSE IF result.tier = "Topic"
                  THEN [best |-> best, hit |-> result.url]
                  ELSE ScanLines(result, Tail(json_lines))

\* variant: an official audio is good enough as well
GoodEnoughOfficial(best) == best.tier \in {"VEVO", "OfficialAudio"}

\* "If we found VEVO, that's good enough": no more queries are tried
GoodEnough(best) == best.tier = "VEVO"

\* variant: without a best result the call has nothing to return
BestOrNothing(best) == IF best = NoResult THEN NoneV ELSE best.url

\* "Return the best result we found", or the plain search string
BestOrFallback(best) == IF best = NoResult THEN "ytsearch1" ELSE best.url

\* the URL a whole call returns when every query's subprocess starts
RECURSIVE SelectFrom(_, _, _)
SelectFrom(feed, i, best) ==
    LET scan == ScanLines(best, feed[i])
    IN  IF scan.hit # NoneV
        THEN scan.hit
        ELSE IF GoodEnough(scan.best) \/ i = LastQuery
             THEN BestOrFallback(scan.best)
             ELSE SelectFrom(feed, i + 1, scan.best)

find_best_source(feed) == SelectFrom(feed, 0, NoResult)

\* loop head: the query of this iteration is issued; a subprocess that
\* cannot be looked up or spawned ends the call with its error
find_best_source_issue ==
    /\ spc = "issue"
    /\ \E o \in SidecarOutcomes :
         IF o = "ok"
         THEN /\ issued' = Append(issued, QueryNames[idx + 1])
              /\ spc' = "analyze"
              /\ UNCHANGED returned
         ELSE /\ returned' = [ok |-> FALSE, value |-> o]
              /\ spc' = "done"
              /\ UNCHANGED issued
    /\ UNCHANGED <<engineVars, fnVars, results, idx, best_result>>

\* the subprocess has terminated and its lines are analysed: a Topic
\* candidate returns at once, a VEVO best leaves the loop, otherwise the
\* loop goes on with the next query, if any
find_best_source_analyze ==
    /\ spc = "analyze"
    /\ LET scan == ScanLines(best_result, results[idx])
       IN  IF scan.hit # NoneV
           THEN /\ returned' = [ok |-> TRUE, value |-> scan.hit]
                /\ spc' = "done"
                /\ UNCHANGED <<best_result, idx>>
           ELSE /\ best_result' = scan.best
                /\ UNCHANGED returned
                /\ IF GoodEnough(scan.best) \/ idx = LastQuery
                   THEN /\ spc' = "return"
                        /\ UNCHANGED idx
                   ELSE /\ spc' = "issue"
                        /\ idx' = idx + 1
    /\ UNCHANGED <<engineVars, fnVars, results, issued>>

\* after the loop: "Return the best result we found"
find_best_source_return ==
    /\ spc = "return"
    /\ returned' = [ok |-> TRUE, value |-> BestOrFallback(best_result)]
    /\ spc' = "done"
    /\ UNCHANGED <<engineVars, fnVars, results, idx, best_result, issued>>

\* the lines of a feed, and the feeds in which no line is printed twice
LinesOf(feed) == UNION {{feed[q][k] : k \in DOMAIN feed[q]} : q \in Queries}
LineCount(feed) == Len(feed[0]) + Len(feed[1]) + Len(feed[2])
QueryOutputs == UNION {[1..n -> JsonLines] : n \in 0..MaxResults}
Feeds == {feed \in [Queries -> QueryOutputs] :
             Cardinality(LinesOf(feed)) = LineCount(feed)}

\* a call starts with any feed; the queue is left alone
InitSearch ==
    /\ EngineIdle
    /\ results \in Feeds
    /\ idx = 0
    /\ best_result = NoResult
    /\ issued = <<>>
    /\ returned = NoReturn
    /\ spc = "issue"
    /\ FnIdle

NextSearch ==
    \/ find_best_source_issue
    \/ find_best_source_analyze
    \/ find_best_source_return

SearchSpec == InitSearch /\ [][NextSearch]_vars

\* ------------------------------ partial-block decryptor
\* download/services/deezer.rs decrypt_file (lib.rs decrypt_deezer_file is
\* the same code).  A buffer is a sequence of bytes; byte offset p of the
\* code is element p + 1.

CHUNK_SIZE == 2048    \* "only every third 2048-byte chunk is encrypted"
BlockSize == 8        \* block of the cipher, and length of the IV
KeyLen == 16          \* bytes of a key
MaxChunks == 4        \* whole chunks in an input buffer

\* "IV for Deezer CBC mode (constant: 0, 1, 2, 3, 4, 5, 6, 7)"
IV == <<0, 1, 2, 3, 4, 5, 6, 7>>

E_KeyHex == "Invalid decryption key hex"
E_KeyLen == "Invalid key length"

Min(a, b) == IF a <= b THEN a ELSE b

\* a buffer given element by element, as a sequence
Bytes(f) == SubSeq(f, 1, Len(f))

\* hex::decode: two digits make a byte; a string of odd length or with a
\* character that is no hex digit is an error
HexDigits == <<"0", "1", "2", "3", "4", "5", "6", "7",
               "8", "9", "a", "b", "c", "d", "e", "f">>
IsHexDigit(ch) == \E i \in DOMAIN HexDigits : HexDigits[i] = ch
HexVal(ch) == (CHOOSE i \in DOMAIN HexDigits : HexDigits[i] = ch) - 1
hex_decode(s) ==
    IF Len(s) % 2 = 1 \/ \E i \in DOMAIN s : ~IsHexDigit(s[i])
    THEN [ok |-> FALSE, value |-> E_KeyHex]
    ELSE [ok |-> TRUE,
          value |-> Bytes([i \in 1..(Len(s) \div 2) |->
                             16 * HexVal(s[2 * i - 1]) + HexVal(s[2 * i])])]

\* bitwise exclusive or of two bytes, computed bit by bit and kept as a
\* table (element a + 1 of the table is the row of a)
RECURSIVE XorBits(_, _)
XorBits(a, b) ==
    IF a = 0 /\ b = 0
    THEN 0
    ELSE ((a + b) % 2) + 2 * XorBits(a \div 2, b \div 2)
XorTable ==
    Bytes([a \in 1..256 |-> Bytes([b \in 1..256 |-> XorBits(a - 1, b - 1)])])
Xor(a, b) == XorTable[a + 1][b + 1]

\* The block cipher is the `blowfish` crate's.  Of it the model keeps that
\* a key fixes a permutation of the 8-byte blocks and its inverse: the bytes
\* of a block are rotated and a byte derived from the key is added to each.
Subkey(key, j) == (key[j] + key[j + BlockSize]) % 256
EncryptBlock(key, block) ==
    [j \in 1..BlockSize |->
        (block[(j % BlockSize) + 1] + Subkey(key, j)) % 256]
DecryptBlock(key, block) ==
    [m \in 1..BlockSize |->
        LET j == ((m + BlockSize - 2) % BlockSize) + 1
        IN  (block[j] + 256 - Subkey(key, j)) % 256]

\* cbc::Decryptor over a block-aligned slice, no padding: each block is
\* decrypted and combined with the block before it in the input, the first
\* one with the IV
CbcDecrypt(key, iv, data) ==
    [i \in 1..Len(data) |->
        LET blk == (i - 1) \div BlockSize
            m == ((i - 1) % BlockSize) + 1
            block == SubSeq(data, blk * BlockSize + 1, (blk + 1) * BlockSize)
            prev == IF blk = 0 THEN iv[m] ELSE data[(blk - 1) * BlockSize + m]
        IN  Xor(DecryptBlock(key, block)[m], prev)]

\* variant: every chunk is decrypted
DecryptEveryChunk(key, data, i) ==
    LET chunk_start == i * CHUNK_SIZE
    IN  [data |-> SubSeq(data, 1, chunk_start)
                     \o Bytes(CbcDecrypt(key, IV,
                                 SubSeq(data, chunk_start + 1,
                                        chunk_start + CHUNK_SIZE)))
                     \o SubSeq(data, chunk_start + CHUNK_SIZE + 1, Len(data)),
         cipher |-> 1]

\* the loop body for one chunk_idx: the buffer after the iteration, and
\* whether a cipher was initialised
DecryptChunk(key, data, i) ==
    LET chunk_start == i * CHUNK_SIZE
        chunk_end == Min(chunk_start + CHUNK_SIZE, Len(data))
        chunk_len == chunk_end - chunk_start
        blocks_len == (chunk_len \div BlockSize) * BlockSize
        chunk_data == Bytes(CbcDecrypt(key, IV,
                               SubSeq(data, chunk_start + 1,
                                      chunk_start + blocks_len)))
    IN  IF i % 3 = 0 /\ chunk_len >= BlockSize
        THEN [data |-> SubSeq(data, 1, chunk_start)
                          \o chunk_data
                          \o SubSeq(data, chunk_start + blocks_len + 1,
                                    Len(data)),
              cipher |-> 1]
        ELSE [data |-> data, cipher |-> 0]

\* `chunks_count`: the loop runs over 0..chunks_count - 1
ChunksCount(data) == Len(data) \div CHUNK_SIZE

\* variant: a key of more than 16 bytes passes
KeyLengthAtLeast(n) == n >= KeyLen

\* `key_bytes.len() != 16` is refused
ValidKeyLength(n) == n = KeyLen

\* the key is parsed and its length checked; then the input is copied
decrypt_file_key ==
    /\ dpc = "key"
    /\ LET decoded == hex_decode(decryption_key_hex)
       IN  IF ~decoded.ok
           THEN /\ dec_result' = [ok |-> FALSE, value |-> E_KeyHex]
                /\ dpc' = "done"
                /\ UNCHANGED <<key_bytes, decrypted_data>>
           ELSE /\ key_bytes' = decoded.value
                /\ IF ~ValidKeyLength(Len(decoded.value))
                   THEN /\ dec_result' = [ok |-> FALSE, value |-> E_KeyLen]
                        /\ dpc' = "done"
                        /\ UNCHANGED decrypted_data
                   ELSE /\ decrypted_data' = encrypted_data
                        /\ dpc' = "loop"
                        /\ UNCHANGED dec_result
    /\ UNCHANGED <<engineVars, rankVars, sanVars, orgVars, lockVars,
                   encrypted_data, decryption_key_hex, plain_data, chunk_idx,
                   ciphers>>

\* one iteration of `for chunk_idx in 0..chunks_count`
decrypt_file_chunk ==
    /\ dpc = "loop"
    /\ chunk_idx < ChunksCount(encrypted_data)
    /\ LET step == DecryptChunk(key_bytes, decrypted_data, chunk_idx)
       IN  /\ decrypted_data' = step.data
           /\ ciphers' = ciphers + step.cipher
    /\ chunk_idx' = chunk_idx + 1
    /\ UNCHANGED <<engineVars, rankVars, sanVars, orgVars, lockVars,
                   encrypted_data, decryption_key_hex, key_bytes, plain_data,
                   dec_result, dpc>>

\* after the loop: Ok(decrypted_data)
decrypt_file_return ==
    /\ dpc = "loop"
    /\ chunk_idx >= ChunksCount(encrypted_data)
    /\ dec_result' = [ok |-> TRUE, value |-> decrypted_data]
    /\ dpc' = "done"
    /\ UNCHANGED <<engineVars, rankVars, sanVars, orgVars, lockVars,
                   encrypted_data, decryption_key_hex, key_bytes, plain_data,
                   decrypted_data, chunk_idx, ciphers>>

\* The provider's side, as the format is declared: every chunk whose index
\* is a multiple of 3, the trailing incomplete one included, is encrypted on
\* its own in CBC mode with the fixed IV over its largest block-aligned
\* prefix; a chunk shorter than a block and every other chunk are left as
\* they are.
\* CBC encryption of the blocks of `data` from element i up to element
\* `last`, appended to the blocks `acc` already encrypted
RECURSIVE CbcEncryptRun(_, _, _, _, _)
CbcEncryptRun(key, data, i, last, acc) ==
    IF i > last
    THEN acc
    ELSE LET prev == IF acc = <<>>
                     THEN IV
                     ELSE SubSeq(acc, Len(acc) - BlockSize + 1, Len(acc))
             mixed == Bytes([j \in 1..BlockSize |->
                               Xor(data[i + j - 1], prev[j])])
         IN  CbcEncryptRun(key, data, i + BlockSize, last,
                           acc \o Bytes(EncryptBlock(key, mixed)))

\* the same over all of `data`, a run of BlockSize blocks at a time
RECURSIVE CbcEncryptFrom(_, _, _, _)
CbcEncryptFrom(key, data, i, acc) ==
    IF i > Len(data)
    THEN acc
    ELSE LET last == Min(i + BlockSize * BlockSize - 1, Len(data))
             done == CbcEncryptRun(key, data, i, last, acc)
         IN  CbcEncryptFrom(key, data, Len(done) + 1, done)

RECURSIVE ProviderEncryptFrom(_, _, _)
ProviderEncryptFrom(key, data, i) ==
    LET chunk_start == i * CHUNK_SIZE
        chunk_len == Min(CHUNK_SIZE, Len(data) - chunk_start)
        blocks_len == (chunk_len \div BlockSize) * BlockSize
    IN  IF chunk_start >= Len(data)
        THEN data
        ELSE IF i % 3 = 0 /\ chunk_len >= BlockSize
             THEN ProviderEncryptFrom(
                     key,
                     SubSeq(data, 1, chunk_start)
                        \o CbcEncryptFrom(
                              key,
                              SubSeq(data, chunk_start + 1,
                                     chunk_start + blocks_len),
                              1, <<>>)
                        \o SubSeq(data, chunk_start + blocks_len + 1, Len(data)),
                     i + 1)
             ELSE ProviderEncryptFrom(key, data, i + 1)

ProviderEncrypt(key, data) == ProviderEncryptFrom(key, data, 0)

\* the key as the backend hands it out: two lower-case digits for a byte
hex_encode(bytes) ==
    Bytes([i \in 1..(2 * Len(bytes)) |->
              IF i % 2 = 1
              THEN HexDigits[(bytes[(i + 1) \div 2] \div 16) + 1]
              ELSE HexDigits[(bytes[i \div 2] % 16) + 1]])

\* the buffers and keys a call is followed for: 0..MaxChunks whole chunks
\* followed by nothing, by less than a block, by one block, by more than a
\* block or by a chunk less one byte, with two contents; two keys of 16
\* bytes; key strings of 15, 17 and 0 bytes, of an odd number of digits and
\* with a character that is no digit
TailLens == {0, 5, BlockSize, BlockSize + 5, CHUNK_SIZE - 1}
BufferLens == {k * CHUNK_SIZE + t : k \in 0..MaxChunks, t \in TailLens}
Fill(n, a) == Bytes([i \in 1..n |-> (a * i + 3) % 256])
Buffers == {Fill(n, a) : n \in BufferLens, a \in {1, 7}}
Keys == {Bytes([i \in 1..KeyLen |-> (a * i + 11) % 256]) : a \in {5, 36}}
KeyOf(n) == Bytes([i \in 1..n |-> HexDigits[(i % 16) + 1]])
InvalidKeys ==
    {KeyOf(2 * KeyLen - 2), KeyOf(2 * KeyLen + 2), KeyOf(2 * KeyLen - 1),
     <<>>, [KeyOf(2 * KeyLen) EXCEPT ![5] = "g"]}
NoPlain == <<-1>>     \* the input was not made by the provider's side

\* a call starts with a buffer and a key string: the provider's encryption
\* of some bytes with its key, or any bytes with any key string
InitDecrypt ==
    /\ EngineIdle
    /\ build = "modular"
    /\ SearchIdle
    /\ SanitizeIdle /\ OrganizeIdle /\ LockIdle
    /\ \/ \E key \in Keys, data \in Buffers :
            /\ decryption_key_hex = hex_encode(key)
            /\ plain_data = data
            /\ encrypted_data = ProviderEncrypt(key, data)
       \/ \E key \in Keys, bad \in InvalidKeys, data \in Buffers :
            /\ decryption_key_hex \in {hex_encode(key), bad}
            /\ plain_data = NoPlain
            /\ encrypted_data = data
    /\ key_bytes = <<>>
    /\ decrypted_data = <<>>
    /\ chunk_idx = 0
    /\ ciphers = 0
    /\ dec_result = NoReturn
    /\ dpc = "key"

NextDecrypt ==
    \/ decrypt_file_key
    \/ decrypt_file_chunk
    \/ decrypt_file_return

DecryptSpec == InitDecrypt /\ [][NextDecrypt]_vars

\* ------------------------------ the queue lock
\* download/queue.rs and commands.rs (lib.rs holds the same lock sections)
\*
\* DOWNLOAD_QUEUE is a std::sync::Mutex: once a thread has panicked while
\* holding the guard, every later `lock()` returns Err.  Each mutation is
\* followed from its `lock()` to its return, and `report` keeps what the
\* caller got back.

\* `.lock().map_err(|e| format!("Lock error: {}", e))?`
E_Lock == "Lock error"

\* a lock section that returns a Result: the error when the lock is
\* poisoned, else the mutation is applied and Ok returned
LockOrErr(op, q) ==
    IF poisoned
    THEN /\ queue' = queue
         /\ report' = [op |-> op, result |-> E_Lock, removed |-> 0]
    ELSE /\ queue' = q
         /\ report' = [op |-> op, result |-> "Ok",
                       removed |-> IF op = "clear_completed"
                                   THEN Len(queue) - Len(q)
                                   ELSE 0]

\* `if let Ok(mut queue) = DOWNLOAD_QUEUE.lock() { .. }` in a function
\* without a return value: the caller gets `()` either way
LockIfOk(op, q) ==
    /\ queue' = IF poisoned THEN queue ELSE q
    /\ report' = [op |-> op, result |-> "()", removed |-> 0]

\* the rest of the engine, and the functions followed on their own, stand
\* still while the lock is followed
LockFrame ==
    UNCHANGED <<build, processing, removals, procVars, res, translit, rankVars,
                decVars, sanVars, orgVars, syncVars, push>>

\* a thread panics inside a lock section
holder_panics ==
    /\ ~poisoned
    /\ poisoned' = TRUE
    /\ UNCHANGED <<queue, nextId, report>>
    /\ LockFrame

\* add_to_queue / QueueManager::add_job
locked_add_job ==
    /\ nextId <= MaxJobs
    /\ LockOrErr("add_job", Append(queue, NewJob(nextId, "Spotify")))
    /\ nextId' = nextId + 1
    /\ UNCHANGED poisoned
    /\ LockFrame

\* add_multiple_to_queue / QueueManager::add_jobs: every job under one guard
locked_add_jobs ==
    /\ nextId + 1 <= MaxJobs
    /\ LockOrErr("add_jobs", queue \o <<NewJob(nextId, "Spotify"),
                                        NewJob(nextId + 1, "YouTube")>>)
    /\ nextId' = nextId + 2
    /\ UNCHANGED poisoned
    /\ LockFrame

\* update_job_status(job_id, status, progress, message)
locked_update_job_status ==
    /\ \E id \in 1..MaxJobs, status \in DownloadStatus \ {"Queued"} :
          LockIfOk("update_job_status",
                   update_job_status(queue, id, status,
                                     IF status = "Complete" THEN 100 ELSE 0))
    /\ UNCHANGED <<nextId, poisoned>>
    /\ LockFrame

\* QueueManager::update_job_metadata(job_id, update_fn), and the
\* `job.metadata = ..` sections of the monolith
locked_update_job_metadata ==
    /\ \E id \in 1..MaxJobs :
          LockOrErr("update_job_metadata",
                    update_job_metadata(queue, id, "proxy"))
    /\ UNCHANGED <<nextId, poisoned>>
    /\ LockFrame

\* remove_from_queue / QueueManager::remove_job
locked_remove_job ==
    /\ \E id \in 1..MaxJobs :
          LET Keep(j) == j.id # id
          IN  LockOrErr("remove_job", SelectSeq(queue, Keep))
    /\ UNCHANGED <<nextId, poisoned>>
    /\ LockFrame

\* clear_completed_jobs / QueueManager::clear_completed
locked_clear_completed ==
    /\ LockOrErr("clear_completed", clear_completed(queue).queue)
    /\ UNCHANGED <<nextId, poisoned>>
    /\ LockFrame

InitLock == EngineIdle /\ SearchIdle /\ FnIdle

NextLock ==
    \/ holder_panics
    \/ locked_add_job
    \/ locked_add_jobs
    \/ locked_update_job_status
    \/ locked_update_job_metadata
    \/ locked_remove_job
    \/ locked_clear_completed

LockSpec == InitLock /\ [][NextLock]_vars

\* ------------------------------ the two mutexes
\* DOWNLOAD_QUEUE and QUEUE_PROCESSING (download/queue.rs; lib.rs holds the
\* same statics and the same lock sections).  Here a `lock()` is a step of
\* its own, which waits until no thread holds the guard, and the guard is
\* dropped where its block or statement ends.  A thread runs one command at
\* a time: a status poll, an enqueue, a remove, a clear, or a start request
\* with the loop it enters; the loop claims a job, finishes it as Complete
\* or Error, and emits "queue-update" (a get_queue_status call) where
\* start_queue_processing and process_download_job do.

\* the stages that wait for the guard of DOWNLOAD_QUEUE, each with the stage
\* its lock section is
QueueSection ==
    [gs_queue |-> "gs_flag", lp_queue |-> "lp_find", wr_queue |-> "wr_write",
     aj_queue |-> "aj_push", rm_queue |-> "rm_retain", cc_queue |-> "cc_retain"]

\* the same for the guard of QUEUE_PROCESSING
FlagSection ==
    [gs_flag |-> "gs_read", st_flag |-> "st_test", cl_flag |-> "cl_clear"]

\* thread t goes on at `stage`
At(t, stage) == [thread EXCEPT ![t].at = stage]

Released(mutex) == [holder EXCEPT ![mutex] = NoHolder]

\* what the commands below leave alone
SyncFrame ==
    UNCHANGED <<build, removals, procVars, res, translit, push, rankVars,
                decVars, sanVars, orgVars, poisoned, report>>

\* a command is invoked on thread t
command(t) ==
    /\ thread[t].at = "idle"
    /\ \E first \in {"gs_queue", "aj_queue", "rm_queue", "cc_queue", "st_flag"} :
          /\ first = "aj_queue" => nextId <= MaxJobs
          /\ thread' = At(t, first)
    /\ UNCHANGED <<queue, processing, nextId, holder>>
    /\ SyncFrame

\* DOWNLOAD_QUEUE.lock()
lock_queue(t) ==
    /\ thread[t].at \in DOMAIN QueueSection
    /\ holder.DOWNLOAD_QUEUE = NoHolder
    /\ holder' = [holder EXCEPT !.DOWNLOAD_QUEUE = t]
    /\ thread' = At(t, QueueSection[thread[t].at])
    /\ UNCHANGED <<queue, processing, nextId>>
    /\ SyncFrame

\* QUEUE_PROCESSING.lock()
lock_flag(t) ==
    /\ thread[t].at \in DOMAIN FlagSection
    /\ holder.QUEUE_PROCESSING = NoHolder
    /\ holder' = [holder EXCEPT !.QUEUE_PROCESSING = t]
    /\ thread' = At(t, FlagSection[thread[t].at])
    /\ UNCHANGED <<queue, processing, nextId>>
    /\ SyncFrame

\* get_queue_status: `let is_processing = *QUEUE_PROCESSING.lock()?;` the
\* guard of the flag is a temporary of this statement
get_status_read_flag(t) ==
    /\ thread[t].at = "gs_read"
    /\ thread' = [thread EXCEPT ![t].at = "gs_count",
                                ![t].status.is_processing = processing]
    /\ holder' = Released("QUEUE_PROCESSING")
    /\ UNCHANGED <<queue, processing, nextId>>
    /\ SyncFrame

\* what the four `queue.iter().filter(..).count()` give
CountsOf(status, q) ==
    [status EXCEPT
        !.active_count =
            Cardinality({i \in DOMAIN q :
                            q[i].status \in {"Downloading", "Converting"}}),
        !.queued_count = Cardinality({i \in DOMAIN q : q[i].status = "Queued"}),
        !.completed_count =
            Cardinality({i \in DOMAIN q : q[i].status = "Complete"}),
        !.error_count = Cardinality({i \in DOMAIN q : q[i].status = "Error"})]

\* variant: the guard of the queue is dropped once the counts are taken
get_status_count_unguarded(t) ==
    /\ thread[t].at = "gs_count"
    /\ thread' = [thread EXCEPT ![t].at = "gs_clone",
                                ![t].status = CountsOf(thread[t].status, queue)]
    /\ holder' = Released("DOWNLOAD_QUEUE")
    /\ UNCHANGED <<queue, processing, nextId>>
    /\ SyncFrame

\* get_queue_status: the four counts, under the guard of the queue
get_status_count(t) ==
    /\ thread[t].at = "gs_count"
    /\ thread' = [thread EXCEPT ![t].at = "gs_clone",
                                ![t].status = CountsOf(thread[t].status, queue)]
    /\ UNCHANGED <<queue, processing, nextId, holder>>
    /\ SyncFrame

\* get_queue_status: `Ok(QueueStatus { jobs: queue.clone(), .. })`; the guard
\* of the queue is dropped at the return
get_status_clone(t) ==
    /\ thread[t].at = "gs_clone"
    /\ thread' = [thread EXCEPT ![t].at = "gs_done", ![t].status.jobs = queue]
    /\ holder' = Released("DOWNLOAD_QUEUE")
    /\ UNCHANGED <<queue, processing, nextId>>
    /\ SyncFrame

\* the snapshot is handed to the caller of the command, or emitted, and the
\* thread goes on where the code does
get_status_return(t) ==
    /\ thread[t].at = "gs_done"
    /\ thread' = [thread EXCEPT ![t].at = thread[t].ret, ![t].ret = "idle",
                                ![t].status = NoStatus]
    /\ UNCHANGED <<queue, processing, nextId, holder>>
    /\ SyncFrame

\* variant: the guard of the flag is kept over the emit that follows
start_test_and_set_holding(t) ==
    /\ thread[t].at = "st_test"
    /\ IF processing
       THEN /\ thread' = At(t, "idle")
            /\ UNCHANGED processing
       ELSE /\ processing' = TRUE
            /\ thread' = [thread EXCEPT ![t].at = "gs_queue",
                                        ![t].ret = "lp_queue"]
    /\ UNCHANGED <<queue, nextId, holder>>
    /\ SyncFrame

\* start_queue_processing: the block that tests and sets the flag, then the
\* emit
start_test_and_set(t) ==
    /\ thread[t].at = "st_test"
    /\ IF processing
       THEN /\ thread' = At(t, "idle")
            /\ UNCHANGED processing
       ELSE /\ processing' = TRUE
            /\ thread' = [thread EXCEPT ![t].at = "gs_queue",
                                        ![t].ret = "lp_queue"]
    /\ holder' = Released("QUEUE_PROCESSING")
    /\ UNCHANGED <<queue, nextId>>
    /\ SyncFrame

\* the loop head: the block that reads the first Queued job
loop_find(t) ==
    /\ thread[t].at = "lp_find"
    /\ thread' = [thread EXCEPT
                     ![t].at = IF FirstQueued(queue) # NoJob
                               THEN "wr_queue" ELSE "cl_flag",
                     ![t].job = FirstQueued(queue),
                     ![t].claimed = FALSE]
    /\ holder' = Released("DOWNLOAD_QUEUE")
    /\ UNCHANGED <<queue, processing, nextId>>
    /\ SyncFrame

\* update_job_status of the loop's job, then the emit: Downloading when the
\* job is claimed, Complete or Error when its processing ends
write_status(t) ==
    /\ thread[t].at = "wr_write"
    /\ \E status \in IF thread[t].claimed
                     THEN {"Complete", "Error"} ELSE {"Downloading"} :
          queue' = update_job_status(queue, thread[t].job, status,
                                     IF status = "Complete" THEN 100 ELSE 0)
    /\ thread' = [thread EXCEPT
                     ![t].at = "gs_queue",
                     ![t].ret = IF thread[t].claimed THEN "lp_queue" ELSE "wr_queue",
                     ![t].claimed = TRUE]
    /\ holder' = Released("DOWNLOAD_QUEUE")
    /\ UNCHANGED <<processing, nextId>>
    /\ SyncFrame

\* after the loop: the block that clears the flag, then the emit
clear_flag(t) ==
    /\ thread[t].at = "cl_clear"
    /\ processing' = FALSE
    /\ thread' = [thread EXCEPT ![t].at = "gs_queue", ![t].ret = "idle"]
    /\ holder' = Released("QUEUE_PROCESSING")
    /\ UNCHANGED <<queue, nextId>>
    /\ SyncFrame

\* add_to_queue: `queue.push(job)`
add_job_push(t) ==
    /\ thread[t].at = "aj_push"
    /\ queue' = Append(queue, NewJob(nextId, "YouTube"))
    /\ nextId' = nextId + 1
    /\ thread' = At(t, "idle")
    /\ holder' = Released("DOWNLOAD_QUEUE")
    /\ UNCHANGED processing
    /\ SyncFrame

\* remove_from_queue: `queue.retain(|j| j.id != job_id)`
remove_job_retain(t) ==
    /\ thread[t].at = "rm_retain"
    /\ \E id \in JobIds :
          LET Keep(j) == j.id # id IN queue' = SelectSeq(queue, Keep)
    /\ thread' = At(t, "idle")
    /\ holder' = Released("DOWNLOAD_QUEUE")
    /\ UNCHANGED <<processing, nextId>>
    /\ SyncFrame

\* clear_completed_jobs: the retain of the jobs that are not finished
clear_completed_retain(t) ==
    /\ thread[t].at = "cc_retain"
    /\ queue' = clear_completed(queue).queue
    /\ thread' = At(t, "idle")
    /\ holder' = Released("DOWNLOAD_QUEUE")
    /\ UNCHANGED <<processing, nextId>>
    /\ SyncFrame

InitSync == EngineIdle /\ build = "monolith" /\ SearchIdle /\ FnIdle

NextSync ==
    \E t \in Callers :
       \/ command(t)
       \/ lock_queue(t)
       \/ lock_flag(t)
       \/ get_status_read_flag(t)
       \/ get_status_count(t)
       \/ get_status_clone(t)
       \/ get_status_return(t)
       \/ start_test_and_set(t)
       \/ loop_find(t)
       \/ write_status(t)
       \/ clear_flag(t)
       \/ add_job_push(t)
       \/ remove_job_retain(t)
       \/ clear_completed_retain(t)

SyncSpec == InitSync /\ [][NextSync]_vars

\* ------------------------------ properties

\* position of a status in the lifecycle
Rank(status) ==
    CASE status = "Queued" -> 0
      [] status = "Downloading" -> 1
      [] status = "Converting" -> 2
      [] OTHER -> 3

StatusOf(q, id) == JobOf(q, id).status

\* caller c is executing a processing loop
InLoop(c) == pc[c] \notin {"idle", "noop"}

DownloadStages == {"pdj_dl", "sp_dl", "yt_dl", "am_dl", "sc_dl"}

\* C1: every change of a job's status moves forward in
\* Queued -> Downloading -> Converting -> {Complete, Error}; in particular a
\* progress line after a phase marker does not move a Converting job back
C1_StatusNeverMovesBack ==
    [][\A id \in JobIds :
          (HasJob(queue, id) /\ HasJob(queue', id))
             => Rank(StatusOf(queue', id)) >= Rank(StatusOf(queue, id))]_vars

\* C2: at most one job of the queue is Downloading or Converting
C2_OneActiveJob == ActiveCount(queue) <= 1

\* C3: when a process-job call has returned an error to the loop, the job it
\* was called for (if still in the queue) is in Error with the message recorded
C3_FailedJobIsMarked ==
    \A c \in Callers :
       (pc[c] = "find" /\ res[c] \notin {NoneV, "ok"} /\ HasJob(queue, cur[c]))
          => /\ StatusOf(queue, cur[c]) = "Error"
             /\ JobOf(queue, cur[c]).error = res[c]

\* C4: in the three-job scenario a failure does not end the loop: the loop
\* leaves only when no job is Queued, a job whose call returned success is
\* Complete and one whose download subprocess failed is Error, and a started
\* loop eventually stops with no job left Queued
C4_FailureNeverAbortsQueue ==
    /\ [][\A c \in Callers :
             (pc[c] # "clear" /\ pc'[c] = "clear")
                => \A i \in DOMAIN queue' : queue'[i].status # "Queued"]_vars
    /\ [](\A c \in Callers :
             (pc[c] = "find" /\ HasJob(queue, cur[c]))
                => /\ res[c] = "ok" => StatusOf(queue, cur[c]) = "Complete"
                   /\ res[c] \in {E_Proc, E_Exit}
                         => StatusOf(queue, cur[c]) = "Error")
    /\ processing
          ~> (~processing /\ \A i \in DOMAIN queue : queue[i].status # "Queued")

\* C4 witness: the loop has stopped with jobs 1 and 3 Complete and job 2 in
\* Error after its download subprocess failed
C4_Witness ==
    /\ ~processing
    /\ \A c \in Callers : pc[c] = "idle"
    /\ Len(queue) = 3
    /\ queue[1].status = "Complete"
    /\ queue[2].status = "Error" /\ queue[2].error \in {E_Proc, E_Exit}
    /\ queue[3].status = "Complete"

\* C5: at most one caller executes a loop; a start request that finds the
\* flag clear sets it and enters the loop; one that finds it set changes
\* neither the flag nor any job, and returns
C5_SingleLoop ==
    /\ [](Cardinality({c \in Callers : InLoop(c)}) <= 1)
    /\ [][\A c \in Callers :
            /\ (pc[c] = "idle" /\ pc'[c] # "idle" /\ ~processing)
                  => (processing' /\ pc'[c] = "find" /\ queue' = queue)
            /\ (pc[c] = "idle" /\ pc'[c] # "idle" /\ processing)
                  => (processing' /\ pc'[c] = "noop" /\ queue' = queue)
            /\ (pc[c] = "noop" /\ pc'[c] # "noop")
                  => (pc'[c] = "idle" /\ queue' = queue
                      /\ processing' = processing)]_vars

\* C5 witness: a start request has found the flag set while another caller
\* is processing a job
C5_Witness ==
    \E c, d \in Callers :
       /\ pc[c] = "noop"
       /\ pc[d] \in DownloadStages
       /\ HasJob(queue, cur[d])

\* C6: whenever a job becomes Downloading, no job before it in the queue is
\* Queued
C6_InsertionOrder ==
    [][\A i \in DOMAIN queue' :
          (/\ queue'[i].status = "Downloading"
           /\ ~(/\ HasJob(queue, queue'[i].id)
                /\ StatusOf(queue, queue'[i].id) = "Downloading"))
             => \A k \in 1..(i - 1) : queue'[k].status # "Queued"]_vars

\* C6 witness: the second job is being downloaded after the first was
\* handled
C6_Witness ==
    /\ Len(queue) = 2
    /\ queue[1].status \in {"Complete", "Error"}
    /\ queue[2].status = "Downloading"

\* C7: a job that is Complete or Error keeps that status for as long as it
\* is in the queue
C7_TerminalStatus ==
    [][\A id \in JobIds :
          (/\ HasJob(queue, id)
           /\ HasJob(queue', id)
           /\ StatusOf(queue, id) \in {"Complete", "Error"})
             => StatusOf(queue', id) = StatusOf(queue, id)]_vars

\* C7 witness: one job ended in Error and one in Complete, a
\* transliteration task is still running and a new loop has been started
C7_Witness ==
    /\ Len(queue) = 2
    /\ queue[1].status = "Error"
    /\ queue[2].status = "Complete"
    /\ translit # {}
    /\ \E c \in Callers : pc[c] = "find"

C9_ActiveJobNotRemoved ==
    [][\A id \in JobIds :
          (/\ remove_from_queue(id)
           /\ StatusOf(queue, id) \in {"Downloading", "Converting"})
             => HasJob(queue', id)]_vars

SpotifyDirectStages == {"pdj_sp_token", "pdj_sp_direct", "sp_token", "sp_direct"}
SpotifyFallbackStages == {"pdj_sp_fallback", "sp_fallback"}

\* C10: for a Spotify job past its metadata lookup, the token check and the
\* direct path end in completion or in the fallback, never in Error; the
\* fallback goes on to the ranking search; no job ever records a direct-path
\* failure
C10_DirectFailureFallsBack ==
    /\ [][\A c \in Callers :
            /\ (svc[c] = "Spotify" /\ pc[c] \in SpotifyDirectStages
                /\ pc'[c] # pc[c])
                  => /\ pc'[c] \in SpotifyDirectStages \cup SpotifyFallbackStages
                                     \cup {"pj_ok", "pdj_finish"}
                     /\ err'[c] = NoneV
                     /\ HasJob(queue', cur[c])
                           => StatusOf(queue', cur[c]) # "Error"
            /\ (pc[c] \in SpotifyFallbackStages /\ pc'[c] # pc[c])
                  => /\ pc'[c] \in {"pdj_search", "sp_search"}
                     /\ HasJob(queue', cur[c])
                           => StatusOf(queue', cur[c]) = "Downloading"]_vars
    /\ [](\A i \in DOMAIN queue : queue[i].error # E_Direct)
    /\ [](\A c \in Callers : err[c] # E_Direct /\ res[c] # E_Direct)

\* C10 witness: a Spotify job that went through the fallback has finished
\* the generic download and is about to be marked Complete
C10_Witness ==
    \E c \in Callers :
       /\ svc[c] = "Spotify"
       /\ pc[c] \in {"pdj_complete", "sp_complete"}
       /\ HasJob(queue, cur[c])

\* ------------------------------ properties of the resolution of one job

\* the process-job call of caller c returns to the loop with this step
Returns(c) == pc[c] \notin {"find", "idle", "noop", "clear"} /\ pc'[c] = "find"

\* {base}/unsorted/Artist - Song.mp3
UnsortedArtistSong ==
    <<BaseDir, <<"unsorted">>, <<"Artist", " ", "-", " ", "Song", ".", "mp3">>>>

\* C11: a Spotify job with Single context whose lookup returned "Artist" and
\* "Song" and which was downloaded by the generic subprocess after the
\* ranking search (no token, or a failed direct path) returns Ok with the job
\* Complete and its output path {base}/unsorted/Artist - Song.mp3
C11_SpotifyFallbackPath ==
    [][\A c \in Callers :
          (/\ Returns(c)
           /\ pc[c] \in {"pj_ok", "pdj_finish"}
           /\ svc[c] = "Spotify"
           /\ info[c].download_context = "Single"
           /\ lp[c] # 0
           /\ HasJob(queue, cur[c]))
             => /\ res'[c] = "ok"
                /\ StatusOf(queue', cur[c]) = "Complete"
                /\ JobOf(queue', cur[c]).output_path = UnsortedArtistSong]_vars

\* a metadata lookup is in flight: the Spotify proxy, the iTunes lookup, the
\* metadata-only invocation
LookupStages == {"pdj_sp_meta", "sp_meta", "pdj_am_info", "am_info",
                 "pdj_meta_wait", "yt_meta_wait", "sc_meta_wait"}
\* the ranking search has been called
SearchStages == {"pdj_search", "pdj_search_wait", "sp_search", "sp_search_wait",
                 "am_search", "am_search_wait"}
\* the direct decryption path has been called
DirectStages == {"pdj_sp_direct", "sp_direct"}
\* the output directory is made and the download subprocess spawned
SpawnStages == {"pdj_spawn", "sp_spawn", "yt_spawn", "am_spawn", "sc_spawn"}
\* the stages that start the metadata-only invocation
DryRunStages == {"pdj_meta", "yt_begin", "sc_begin"}
\* the download subprocess has ended with code 0
CompleteStages == {"pdj_complete", "sp_complete", "yt_complete", "am_complete",
                   "sc_complete"}

\* the event stream of the download subprocess has ended with no Terminated
\* event
ClosedStages == {ClosedOf(s) : s \in CompleteStages}

UnsupportedServices == {"Deezer", "Tidal", "Unknown"}

\* C12: a Deezer, Tidal or Unknown job never gets a metadata lookup, a
\* ranking search or a download subprocess, and its call returns with the
\* job in Error and the "unsupported service" message recorded
C12_UnsupportedFailsAtOnce ==
    /\ [](\A c \in Callers :
            svc[c] \in UnsupportedServices
               => pc[c] \notin LookupStages \cup SearchStages \cup DownloadStages)
    /\ [][\A c \in Callers :
            (Returns(c) /\ svc[c] \in UnsupportedServices
             /\ HasJob(queue', cur[c]))
               => /\ StatusOf(queue', cur[c]) = "Error"
                  /\ JobOf(queue', cur[c]).error = E_Unsupported]_vars

\* C13: a Bandcamp job goes from the claim to the metadata-only invocation,
\* as a YouTube or SoundCloud job does, and is Complete once its download
\* subprocess has ended with code 0
C13_BandcampLikeYouTube ==
    [][\A c \in Callers :
          svc[c] = "Bandcamp"
             => /\ (pc[c] \in {"pdj_claim", "pj_claim"} /\ pc'[c] # pc[c])
                      => pc'[c] \in DryRunStages
                /\ (pc[c] \in CompleteStages /\ pc'[c] # pc[c]
                    /\ HasJob(queue', cur[c]))
                      => StatusOf(queue', cur[c]) = "Complete"]_vars

\* caller c processes an Apple Music job whose URL is an artist page
ApplePage(c) == svc[c] = "AppleMusic" /\ info[c].url = "page"

\* C14: for an Apple Music artist page no catalog lookup, ranking search or
\* download subprocess is started, and the call returns with the job in Error
C14_ApplePageRejected ==
    /\ [](\A c \in Callers :
            ApplePage(c)
               => pc[c] \notin LookupStages \cup SearchStages \cup SpawnStages
                                \cup DownloadStages)
    /\ [][\A c \in Callers :
            (Returns(c) /\ ApplePage(c) /\ HasJob(queue', cur[c]))
               => StatusOf(queue', cur[c]) = "Error"]_vars

\* caller c processes a Spotify job whose URL is an artist, album or playlist page
SpotifyPage(c) == svc[c] = "Spotify" /\ info[c].url = "page"

\* C15: for a Spotify artist, album or playlist page neither the direct
\* path, the ranking search nor the download subprocess is started, whatever
\* the metadata proxy answers, and the call returns with the job in Error
C15_SpotifyPageRejected ==
    /\ [](\A c \in Callers :
            SpotifyPage(c)
               => pc[c] \notin DirectStages \cup SearchStages \cup SpawnStages
                                \cup DownloadStages)
    /\ [][\A c \in Callers :
            (Returns(c) /\ SpotifyPage(c) /\ HasJob(queue', cur[c]))
               => StatusOf(queue', cur[c]) = "Error"]_vars

\* the call of caller c returns because its metadata or lookup step failed
LookupFailed(c) ==
    /\ Returns(c)
    /\ \/ res'[c] \in {E_SpotifyMeta, E_Lookup, E_ArtistPage}
       \/ pc[c] = "pdj_meta"

\* C16: a failed metadata or lookup step leaves the job in Error, and no
\* download subprocess runs on the placeholder metadata of an answer that
\* did not parse
C16_LookupFailureIsTerminal ==
    /\ [](\A c \in Callers :
            pc[c] \in SpawnStages \cup DownloadStages => meta[c] # "unknown")
    /\ [][\A c \in Callers :
            (LookupFailed(c) /\ HasJob(queue', cur[c]))
               => StatusOf(queue', cur[c]) = "Error"]_vars

\* the output path is being or has been computed, the download subprocess
\* is being spawned or runs
ResolvedStages ==
    SpawnStages \cup DownloadStages \cup CompleteStages \cup ClosedStages
       \cup {"pdj_sp_direct", "sp_token", "sp_direct", "sp_fallback",
             "sp_search", "sp_search_wait"}

\* C17: whenever a job's output path is computed or its download subprocess
\* is spawned or running, the resolver has already written the job's
\* metadata in the queue
C17_MetadataBeforeDownload ==
    \A c \in Callers :
       (pc[c] \in ResolvedStages /\ HasJob(queue, cur[c]))
          => JobOf(queue, cur[c]).metadata # "default"

\* C17 witness: a YouTube job of the modular revision is about to spawn its
\* download subprocess with its original metadata stored and the
\* transliteration task still running
C17_Witness ==
    \E c \in Callers :
       /\ pc[c] = "yt_spawn"
       /\ HasJob(queue, cur[c])
       /\ JobOf(queue, cur[c]).metadata = "original"
       /\ cur[c] \in translit

\* ------------------------------ properties of the ranking search

\* the candidates among the lines of query q, and of a whole feed
CandidatesOf(q) ==
    {analyze_youtube_result(results[q][k]) : k \in DOMAIN results[q]}
       \ {NoResult}
CandidatesUpTo(n) == UNION {CandidatesOf(q) : q \in 0..n}
CandidatesIn(feed) ==
    {analyze_youtube_result(json) : json \in LinesOf(feed)} \ {NoResult}
TopicUrls(feed) == {r.url : r \in {x \in CandidatesIn(feed) : x.tier = "Topic"}}

\* the call has returned the URL of a candidate
ReturnedCandidate == returned.ok /\ returned.value # "ytsearch1"

\* C18: the URL returned for a feed is the URL selected for every other
\* distribution of the same lines over the three queries, in every order,
\* and is a Topic candidate's URL when the lines contain a Topic candidate
C18_OrderIndependent ==
    returned.ok
       => /\ \A g \in Feeds :
                LinesOf(g) = LinesOf(results)
                   => find_best_source(g) = returned.value
          /\ TopicUrls(results) # {} => returned.value \in TopicUrls(results)

\* C19: the candidate whose URL is returned has a tier at least the tier of
\* every candidate printed by the queries issued during the call
C19_BestTierOfIssued ==
    ReturnedCandidate
       => \E r \in CandidatesUpTo(Len(issued) - 1) :
             /\ r.url = returned.value
             /\ \A s \in CandidatesUpTo(Len(issued) - 1) :
                   TierRank(r.tier) >= TierRank(s.tier)

\* C19 witness: all three queries were issued, the first printed a Regular
\* candidate and a later one the OfficialAudio candidate that is returned
C19_Witness ==
    /\ returned.ok
    /\ returned.value = "o"
    /\ Len(issued) = 3
    /\ \E s \in CandidatesOf(0) : s.tier = "Regular"
    /\ \E s \in CandidatesOf(1) \cup CandidatesOf(2) : s.url = "o"

\* a Topic candidate is among the lines of query q; a Topic or VEVO
\* candidate is among the lines of the queries up to n
HasTopic(q) == \E r \in CandidatesOf(q) : r.tier = "Topic"
TopicOrVevoUpTo(n) ==
    \E r \in CandidatesUpTo(n) : r.tier \in {"Topic", "VEVO"}

\* the order of the queries, the immediate return on a Topic candidate and
\* the stop after a VEVO candidate
QueryOrderAndEarlyStop ==
    /\ [](/\ Len(issued) <= Len(QueryNames)
          /\ \A i \in DOMAIN issued : issued[i] = QueryNames[i]
          /\ \A n \in 2..Len(issued) : ~TopicOrVevoUpTo(n - 2))
    /\ [][/\ (spc = "analyze" /\ HasTopic(idx))
                => /\ spc' = "done"
                   /\ returned'.ok
                   /\ returned'.value
                         \in {r.url : r \in {x \in CandidatesOf(idx) :
                                                x.tier = "Topic"}}
                   /\ issued' = issued
          /\ spc \in {"return", "done"} => issued' = issued]_vars

\* C20 as stated: queries are issued in the order topic, official audio,
\* plain; a Topic candidate returns at once and a VEVO candidate stops the
\* queries; a call that has ended without either has issued all three
C20_StopsOnlyOnTopicOrVevo ==
    /\ QueryOrderAndEarlyStop
    /\ [](spc = "done" /\ Len(issued) < Len(QueryNames)
             => TopicOrVevoUpTo(Len(issued) - 1))

\* C20, amended: as above, but only a call that returns a URL has issued all
\* three queries when no Topic or VEVO candidate was found; a query whose
\* subprocess cannot be started ends the call with that error
C20_StopsOnTopicVevoOrError ==
    /\ QueryOrderAndEarlyStop
    /\ [](spc = "done" /\ Len(issued) < Len(QueryNames)
             => \/ TopicOrVevoUpTo(Len(issued) - 1)
                \/ ~returned.ok /\ returned.value \in SidecarOutcomes \ {"ok"})
    /\ [](spc = "done" /\ returned.ok /\ ~TopicOrVevoUpTo(LastQuery)
             => issued = QueryNames)

\* C20 witness: the first query printed a VEVO candidate, which was returned
\* without the second query, whose output holds a Topic candidate, being
\* issued
C20_Witness ==
    /\ returned.ok
    /\ returned.value = "v"
    /\ issued = <<"topic">>
    /\ HasTopic(1)

\* the call has ended and no query it issued printed a candidate
EndedWithoutCandidate ==
    spc = "done" /\ CandidatesUpTo(Len(issued) - 1) = {}

\* C21 as stated: a call whose issued queries printed no candidate returns
\* success with the synthetic fallback query string, never an error
C21_NoCandidateNeverFails ==
    EndedWithoutCandidate => returned.ok /\ returned.value = "ytsearch1"

\* C21, amended: a call whose issued queries printed no candidate either
\* has issued all three queries and returns success with the synthetic
\* fallback query string, or returns the error of a query whose subprocess
\* could not be looked up or spawned; the fallback string is returned in no
\* other case
C21_NoCandidateFallsBack ==
    /\ EndedWithoutCandidate
          => \/ /\ returned.ok
                /\ returned.value = "ytsearch1"
                /\ issued = QueryNames
             \/ /\ ~returned.ok
                /\ returned.value \in SidecarOutcomes \ {"ok"}
                /\ Len(issued) < Len(QueryNames)
    /\ (returned.ok /\ returned.value = "ytsearch1")
          => /\ CandidatesUpTo(LastQuery) = {}
             /\ issued = QueryNames

\* C21 witness: all three queries ran, the only line printed has no URL,
\* and the fallback string was returned
C21_Witness ==
    /\ returned = [ok |-> TRUE, value |-> "ytsearch1"]
    /\ issued = QueryNames
    /\ LinesOf(results) # {}

\* ------------------------------ properties of the decryptor

\* the call has returned a buffer
Decrypted == dpc = "done" /\ dec_result.ok

\* the trailing incomplete chunk of the input: its index, where it starts
\* and its length (0 when the input ends with a whole chunk)
TrailingIndex == Len(encrypted_data) \div CHUNK_SIZE
TrailingStart == TrailingIndex * CHUNK_SIZE
TrailingLen == Len(encrypted_data) % CHUNK_SIZE
TrailingPrefixLen == (TrailingLen \div BlockSize) * BlockSize

\* C22: of a trailing incomplete chunk whose index is a multiple of 3, the
\* returned buffer holds the chunk untouched when it is shorter than 8
\* bytes, and otherwise the CBC decryption of its largest 8-byte-aligned
\* prefix followed by the remaining bytes untouched
C22_TrailingChunkPrefixDecrypted ==
    (Decrypted /\ TrailingLen > 0 /\ TrailingIndex % 3 = 0)
       => LET out == dec_result.value
              tail(buffer) ==
                 SubSeq(buffer, TrailingStart + 1, Len(encrypted_data))
          IN  /\ Len(out) = Len(encrypted_data)
              /\ IF TrailingLen < BlockSize
                 THEN tail(out) = tail(encrypted_data)
                 ELSE /\ SubSeq(out, TrailingStart + 1,
                                TrailingStart + TrailingPrefixLen)
                            = Bytes(CbcDecrypt(
                                 key_bytes, IV,
                                 SubSeq(encrypted_data, TrailingStart + 1,
                                        TrailingStart + TrailingPrefixLen)))
                      /\ SubSeq(out, TrailingStart + TrailingPrefixLen + 1,
                                Len(out))
                            = SubSeq(encrypted_data,
                                     TrailingStart + TrailingPrefixLen + 1,
                                     Len(encrypted_data))

\* C23: when the input is the provider's encryption of a buffer under a
\* 16-byte key, decrypt_file with that key returns that buffer
C23_DecryptInvertsEncrypt ==
    (Decrypted /\ plain_data # NoPlain) => dec_result.value = plain_data

\* the bytes at which two buffers of the same length differ
DiffersAt(a, b) == {p \in DOMAIN a : a[p] # b[p]}
InThirdChunk(p) == ((p - 1) \div CHUNK_SIZE) % 3 = 0

\* C24: the buffer being built, and the buffer returned, has the length of
\* the input and differs from it only inside chunks whose index is a
\* multiple of 3
C24_OnlyThirdChunksChange ==
    /\ dpc = "loop"
          => /\ Len(decrypted_data) = Len(encrypted_data)
             /\ \A p \in DiffersAt(decrypted_data, encrypted_data) :
                   InThirdChunk(p)
    /\ Decrypted
          => /\ Len(dec_result.value) = Len(encrypted_data)
             /\ \A p \in DiffersAt(dec_result.value, encrypted_data) :
                   InThirdChunk(p)

\* C24 witness: a buffer of more than three chunks was returned, changed in
\* chunk 0 and in chunk 3
C24_Witness ==
    /\ Decrypted
    /\ Len(encrypted_data) > 3 * CHUNK_SIZE
    /\ \E p \in DiffersAt(dec_result.value, encrypted_data) :
          p <= CHUNK_SIZE
    /\ \E p \in DiffersAt(dec_result.value, encrypted_data) :
          p > 3 * CHUNK_SIZE

\* the key string decodes to bytes, but not to 16 of them
WrongKeyLength ==
    /\ hex_decode(decryption_key_hex).ok
    /\ Len(hex_decode(decryption_key_hex).value) # KeyLen

\* C25: with a key that decodes to another length than 16 bytes the call
\* returns the key-length error; no cipher is initialised, no chunk is
\* visited and no output buffer exists at any time
C25_BadKeyLengthRejected ==
    WrongKeyLength
       => /\ dpc \in {"key", "done"}
          /\ ciphers = 0
          /\ chunk_idx = 0
          /\ decrypted_data = <<>>
          /\ dpc = "done" => dec_result = [ok |-> FALSE, value |-> E_KeyLen]

\* C25 witness: a key of 17 bytes was refused for a buffer of several chunks
C25_Witness ==
    /\ dpc = "done"
    /\ Len(key_bytes) = KeyLen + 1
    /\ dec_result = [ok |-> FALSE, value |-> E_KeyLen]
    /\ Len(encrypted_data) > CHUNK_SIZE

\* ------------------------------ properties of the sanitizer and organizer

Items(s) == {s[i] : i \in DOMAIN s}

\* a name without replaced characters and without whitespace at either end
Clean(s) ==
    /\ Items(s) \cap Replaced = {}
    /\ s # <<>> => s[1] \notin Whitespace /\ s[Len(s)] \notin Whitespace

\* C26: whatever sanitize_filename returns holds none of / \ : * ? " < > |
\* and neither starts nor ends with whitespace, and sanitizing it again
\* returns it unchanged
C26_SanitizeIdempotent ==
    /\ \A i \in DOMAIN sanitized : Clean(sanitized[i])
    /\ Len(sanitized) = 2 => sanitized[2] = sanitized[1]

\* C26 witness: a name with whitespace at both ends and a replaced
\* character inside was sanitized twice
C26_Witness ==
    /\ Len(sanitized) = 2
    /\ Len(name_arg) = MaxNameLen
    /\ name_arg[1] \in Whitespace
    /\ name_arg[MaxNameLen] \in Whitespace
    /\ Items(name_arg) \cap Replaced # {}
    /\ "x" \in Items(name_arg)
    /\ Len(sanitized[1]) = 2

\* a sanitized name, or the placeholder when nothing is left of it
OrPlaceholder(name, placeholder) ==
    IF sanitize_filename(name) = <<>>
    THEN placeholder
    ELSE sanitize_filename(name)

\* "{artist} - {title}.mp3", or "{title}.mp3" when the sanitized artist is
\* empty or "Unknown Artist"
FileNameOf(metadata) ==
    IF sanitize_filename(metadata.artist) \in {<<>>, UnknownArtist}
    THEN sanitize_filename(metadata.title) \o <<".", "mp3">>
    ELSE sanitize_filename(metadata.artist) \o <<" ", "-", " ">>
            \o sanitize_filename(metadata.title) \o <<".", "mp3">>

\* the layout by context, the album folder named after the metadata's album
LayoutOf(metadata, context) ==
    CASE context.kind = "Single" ->
           <<BaseDir, <<"unsorted">>, FileNameOf(metadata)>>
      [] context.kind = "Album" ->
           <<BaseDir, OrPlaceholder(metadata.artist, UnknownArtist),
             OrPlaceholder(metadata.album, UnknownAlbum), FileNameOf(metadata)>>
      [] OTHER ->
           <<BaseDir, OrPlaceholder(context.name, UnknownPlaylist),
             FileNameOf(metadata)>>

\* C27: the path returned for a metadata and a context is base/unsorted/F
\* for Single, base/A/B/F for Album and base/P/F for Playlist, with A, B and
\* P the sanitized artist, album and playlist name or their placeholders
\* and F the file name
C27_PathLayout ==
    out_path # NoPath => out_path = LayoutOf(metadata_arg, context_arg)

\* C28: for an Album context whose name differs from the metadata's album,
\* the album folder of the returned path is named after the metadata's album
C28_AlbumFolderFromMetadata ==
    (/\ out_path # NoPath
     /\ context_arg.kind = "Album"
     /\ context_arg.name # metadata_arg.album)
       => out_path[3] = OrPlaceholder(metadata_arg.album, UnknownAlbum)

\* ------------------------------ properties of the queue lock

\* C29: a mutation attempted while the lock is poisoned changes nothing and
\* hands the lock error to its caller
C29_PoisonedLockReported ==
    [][(poisoned /\ report' # report)
          => /\ queue' = queue
             /\ report'.result = E_Lock]_vars

\* ------------------------------ properties of the status pushes

\* C30: no status of a job is written while the job's status write before
\* it has not been followed by a "queue-update" event
C30_EveryWritePushed == push.missed = {}

\* caller c is inside a process-job call, past the reading of the job's
\* details
InCall(c) ==
    pc[c] \notin {"idle", "noop", "find", "clear", "pdj_info", "pj_info"}

\* C31: update-status and update-metadata on an id that is not in the queue
\* change no job and not the order, and report no error: a step of the
\* processor on a job that was removed, and the store of a transliteration
\* task whose job was removed, leave the queue as it is, and the call neither
\* ends the loop nor returns "Job not found"
C31_AbsentIdIsNoOp ==
    [][/\ \A c \in Callers :
             (/\ InCall(c)
              /\ ~HasJob(queue, cur[c])
              /\ <<pc[c], lines[c]>>' # <<pc[c], lines[c]>>)
                => /\ queue' = queue
                   /\ pc'[c] \notin {"clear", "idle"}
                   /\ res'[c] # E_NotFound
       /\ \A id \in JobIds :
             (id \in translit /\ id \notin translit' /\ ~HasJob(queue, id))
                => queue' = queue]_vars

\* C31 witness: a job was removed while in flight, its call went on to the
\* end and returned success, and the loop is about to take the next Queued job
C31_Witness ==
    \E c \in Callers :
       /\ pc[c] = "find"
       /\ cur[c] # NoJob
       /\ ~HasJob(queue, cur[c])
       /\ res[c] = "ok"
       /\ \E i \in DOMAIN queue : queue[i].status = "Queued"

Terminal == {"Complete", "Error"}

\* position of job id in queue q
IndexOf(q, id) == CHOOSE i \in DOMAIN q : q[i].id = id

\* C32: clear-completed removes exactly the Complete and Error jobs, returns
\* their number, and leaves every other job in the queue with its fields and
\* in the same relative order, also while a job is in flight
C32_ClearRemovesTerminalOnly ==
    [][clear_completed_jobs
          => /\ \A id \in JobIds :
                   HasJob(queue', id)
                      <=> (HasJob(queue, id) /\ StatusOf(queue, id) \notin Terminal)
             /\ \A id \in JobIds :
                   HasJob(queue', id) => JobOf(queue', id) = JobOf(queue, id)
             /\ \A a, b \in Ids(queue') :
                   IndexOf(queue', a) < IndexOf(queue', b)
                      <=> IndexOf(queue, a) < IndexOf(queue, b)
             /\ Len(queue') = Cardinality(Ids(queue'))
             /\ report'.result = "Ok"
             /\ report'.removed =
                   Cardinality({i \in DOMAIN queue : queue[i].status \in Terminal})]_vars

\* C32 witness: clear-completed has removed a job while another one is being
\* downloaded, and that one is still in the queue
C32_Witness ==
    /\ report.op = "clear_completed"
    /\ report.removed = 1
    /\ \E c \in Callers :
          /\ pc[c] \in DownloadStages
          /\ HasJob(queue, cur[c])
          /\ StatusOf(queue, cur[c]) \in {"Downloading", "Converting"}

\* ------------------------------ properties of the status snapshot and of
\* the two mutexes

\* the snapshot's counts are those of its own job list
Consistent(status) ==
    /\ status = CountsOf(status, status.jobs)
    /\ status.active_count + status.queued_count + status.completed_count
          + status.error_count = Len(status.jobs)

\* C33: every status snapshot that get_queue_status returns, to a poll or to
\* an emit, carries the counts of its own job list, and the four counts add
\* up to the length of that list, whatever the other threads do meanwhile
C33_SnapshotConsistent ==
    \A t \in Callers : thread[t].at = "gs_done" => Consistent(thread[t].status)

\* C33 witness: a snapshot of two jobs, one of them active, has been taken
\* and another thread has changed the queue since
C33_Witness ==
    \E t \in Callers :
       /\ thread[t].at = "gs_done"
       /\ Len(thread[t].status.jobs) = 2
       /\ thread[t].status.active_count = 1
       /\ thread[t].status.jobs # queue

\* thread t waits for a guard that another thread holds
Waiting(t) ==
    \/ /\ thread[t].at \in DOMAIN QueueSection
       /\ holder.DOWNLOAD_QUEUE # NoHolder
    \/ /\ thread[t].at \in DOMAIN FlagSection
       /\ holder.QUEUE_PROCESSING # NoHolder

\* C40: the two mutexes never deadlock: no thread asks for the guard of the
\* queue while it holds the guard of the flag, both guards are held by one
\* thread only inside the status snapshot, which took the queue's first, and
\* whenever some command is under way some thread can take its next step
C40_NoLockCycle ==
    /\ \A t \in Callers :
          holder.QUEUE_PROCESSING = t
             => /\ thread[t].at \notin DOMAIN QueueSection
                /\ holder.DOWNLOAD_QUEUE = t => thread[t].at = "gs_read"
    /\ (\E t \in Callers : thread[t].at # "idle")
          => \E t \in Callers : thread[t].at # "idle" /\ ~Waiting(t)

\* C40 witness: a snapshot holds the guard of the queue and waits for the
\* guard of the flag, which a start request or a loop that ends holds
C40_Witness ==
    \E t, u \in Callers :
       /\ thread[t].at = "gs_flag"
       /\ holder.DOWNLOAD_QUEUE = t
       /\ holder.QUEUE_PROCESSING = u
       /\ thread[u].at \in {"st_test", "cl_clear"}

\* ------------------------------ properties of the download commands

Queued(id) == HasJob(queue, id) /\ StatusOf(queue, id) = "Queued"

\* C34: no job is stranded: a job that a download command has queued, and
\* whose command then issues its start request, is eventually claimed by a
\* processing loop, whatever the interleaving of the commands and the loop
C34_NoJobStranded ==
    \A id \in JobIds : Queued(id) ~> ~Queued(id)

\* ------------------------------ properties of removal and of the stored
\* metadata

\* the stages at which the resolver of a service begins: the first thing
\* each does is the metadata lookup or the metadata-only subprocess
ResolverEntry ==
    {"pdj_sp_begin", "pdj_am_begin", "pdj_meta",
     "sp_begin", "am_begin", "yt_begin", "sc_begin"}

\* C35: a job removed while it is still Queued is never worked on: when the
\* loop has read the job's details and the job is removed before it is
\* marked Downloading, the call does not go on to the service's resolver
C35_RemovedQueuedJobNotProcessed ==
    [][\A c \in Callers :
          (pc[c] \in {"pdj_claim", "pj_claim"} /\ ~HasJob(queue, cur[c]))
             => pc'[c] \notin ResolverEntry]_vars

\* C36: the immediate write of the original metadata never overwrites what
\* the transliteration task has stored: once a job's metadata is the task's
\* transliteration it stays so for as long as the job is in the queue
C36_TaskResultKept ==
    [][\A id \in JobIds :
          (/\ HasJob(queue, id)
           /\ HasJob(queue', id)
           /\ JobOf(queue, id).metadata = "transliterated")
             => JobOf(queue', id).metadata = "transliterated"]_vars

\* ------------------------------ properties of what a snapshot shows
\* get_status clones the queue and reads the flag inside one section of the
\* queue lock, and the pushed snapshot is made by the same call: a snapshot
\* is the queue and the flag of one instant, so what every snapshot shows
\* is what holds of the queue and the flag in every state

\* C37: a job shown as Complete has progress 100 and its output path (and
\* with it, in the same lock section, its completion time) set, and a job
\* whose output path is set is Complete
C37_CompleteJobIsWhole ==
    \A i \in DOMAIN queue :
        /\ queue[i].status = "Complete"
              => (queue[i].progress = 100 /\ queue[i].output_path # NoPath)
        /\ queue[i].output_path # NoPath => queue[i].status = "Complete"

\* C38: a job is Downloading or Converting only while the processing flag
\* is set
C38_ActiveImpliesProcessing ==
    (\E i \in DOMAIN queue : queue[i].status \in {"Downloading", "Converting"})
        => processing

\* C39: a job is marked Complete only after its download subprocess has
\* reported termination with code 0: a call whose event stream ended with
\* no Terminated event does not write Complete
C39_CompleteOnlyAfterExitZero ==
    [][\A c \in Callers :
          (/\ pc[c] \in ClosedStages
           /\ pc'[c] # pc[c]
           /\ HasJob(queue', cur[c]))
             => StatusOf(queue', cur[c]) # "Complete"]_vars

====
